---- MODULE Spec2Model ----
(***************************************************************************)
(* Token lifecycle of okta-auth-js: the Token Manager                      *)
(* (src/lib/TokenManager.ts), the Auth State Manager                       *)
(* (src/lib/AuthStateManager.ts) and the sign-out flow                     *)
(* (src/lib/browser/browser.ts).                                           *)
(*                                                                         *)
(* The JavaScript event loop is modelled by interleaving: one action is    *)
(* one run-to-completion turn (a public call, a timer callback, or one     *)
(* promise reaction).                                                      *)
(***************************************************************************)
EXTENDS Integers, Sequences, FiniteSets, TLC

----------------------------------------------------------------------------
(* Bounds of the model *)

\* the clock runs from 0 to MaxNow
MaxNow == 1
\* number of renewal promises that can be unsettled at the same time
MaxRenewals == 2
\* number of Auth State recomputations that can be unsettled at the same time
MaxInFlight == 2
\* token API operations and login() calls of a run
MaxCalls == 3
MaxLogins == 2
\* hasExpired is probed with tokens whose expiresAt runs from 0 to MaxExpiresAt
MaxExpiresAt == 40

----------------------------------------------------------------------------
(* Program constants and value domains *)

\* DEFAULT_OPTIONS.expireEarlySeconds
ExpireEarlySeconds == 30

\* the two well-known storage keys
ID_TOKEN_STORAGE_KEY == "idToken"
ACCESS_TOKEN_STORAGE_KEY == "accessToken"
Keys == {ID_TOKEN_STORAGE_KEY, ACCESS_TOKEN_STORAGE_KEY}

\* valid Token values (scopes, expiresAt and exactly one of idToken/accessToken):
\* an ID token that expires (early) at time 1, an access token that does at time 2
IdToken == [kind |-> "id", expiresAt |-> ExpireEarlySeconds + 1]
AccessToken == [kind |-> "access", expiresAt |-> ExpireEarlySeconds + 2]
Tokens == {IdToken, AccessToken}

\* tokenStorage[key] of a key that is not stored (undefined)
NoToken == [kind |-> "none"]
\* expireTimeouts[key] of a key without a handle (undefined)
NoTimer == [kind |-> "none"]
\* renewPromise[key] of a key without an entry (undefined)
NoPromise == 0
\* an unused renewal slot
NoRenewal == [stage |-> "none"]

RenewalIds == 1..MaxRenewals

\* err.name of the errors sdk.token.renew can reject with
ErrNames == {"OAuthError", "AuthSdkError", "AuthApiError"}

\* const MAX_PROMISE_CANCEL_TIMES = 10
MAX_PROMISE_CANCEL_TIMES == 10

\* JavaScript null
Null == [kind |-> "null"]

\* JavaScript false
False == [kind |-> "false"]

VARIABLES
  \* ---- Token Manager (TokenManager.ts) ----
  store,           \* storage.getStorage(): key -> Token | NoToken
  expireTimeouts,  \* tokenMgmtRef.expireTimeouts: key -> timer handle | NoTimer
  renewPromise,    \* tokenMgmtRef.renewPromise: key -> renewal id | NoPromise
  renewals,        \* the unsettled promises built by renew(): id -> record
  now,             \* tokenMgmtRef.clock.now()
  autoRenew,       \* options.autoRenew
  emitted,         \* the events emitted on sdk.emitter by the last turn, in order
  last             \* the last turn taken and what it returned

VARIABLES
  \* ---- Auth State Manager (AuthStateManager.ts) ----
  authState,       \* this._authState
  pending,         \* this._pending: {updateAuthStatePromise, canceledTimes}
  comps,           \* the unsettled cancelable promises, oldest first
  isAuthenticatedOpt, \* whether sdk.options.isAuthenticated is configured
  hist             \* history of the updateAuthState calls, read by the properties

tmVars == <<store, expireTimeouts, renewPromise, renewals, now, autoRenew, emitted, last>>

VARIABLES
  \* ---- sign-out (browser.ts) ----
  so,              \* the signOut() execution: where it waits, its locals, its calls
  href,            \* window.location.href
  configUri,       \* this.options.postLogoutRedirectUri ("" when not configured)
  api              \* the closeSession() or revokeAccessToken() execution

asmVars == <<authState, pending, comps, isAuthenticatedOpt, hist>>

soVars == <<so, href, configUri, api>>

VARIABLES
  \* ---- token API and login (browser.ts) ----
  tokenQueue,      \* this._tokenQueue and the token API operations called so far
  login            \* this._pending.handleLogin, options.onAuthRequired, the login() calls

brVars == <<tokenQueue, login>>

vars == <<tmVars, asmVars, soVars, brVars>>

----------------------------------------------------------------------------
(* Token Manager: helpers *)

\* getExpireTime(tokenMgmtRef, token)
getExpireTime(token) == token.expiresAt - ExpireEarlySeconds

\* a hasExpired that does not count the second of expiry itself
hasExpiredStrictly(token) == getExpireTime(token) < now

\* hasExpired(tokenMgmtRef, token)
hasExpired(token) == getExpireTime(token) <= now

Max(a, b) == IF a >= b THEN a ELSE b

\* an expireEventWait that is not held at zero for a token already expired
ExpireEventWaitUnclamped(token, t) == getExpireTime(token) - t

\* expireEventWait of setExpireEventTimeout, in seconds, at time t
ExpireEventWait(token, t) == Max(getExpireTime(token) - t, 0)

\* the handle setTimeout returns for `token`: its callback emits
\* expired(key, token)
NewTimer(token) == [kind |-> "timer", token |-> token, fired |-> FALSE]

\* A timeout set at time t0 <= now is due when t0 + ExpireEventWait(token, t0)
\* <= now, which is getExpireTime(token) <= now for every such t0.
TimerDue(timer) == ExpireEventWait(timer.token, now) = 0

\* a clearExpireEventTimeout that neither clears nor deletes the handle
TimersAfterClearKept(timers, key) == timers

\* clearExpireEventTimeout(tokenMgmtRef, key): the timer table afterwards
TimersAfterClear(timers, key) == [timers EXCEPT ![key] = NoTimer]

\* clearExpireEventTimeout(tokenMgmtRef, key): the renewal cache afterwards
PromisesAfterClear(promises, key) == [promises EXCEPT ![key] = NoPromise]

\* the keys clearExpireEventTimeoutAll iterates over: the own keys of expireTimeouts
TimerKeys == {k \in Keys : expireTimeouts[k] # NoTimer}

\* the smallest unused renewal slot (0 when all are in use)
FreeId ==
  IF \E i \in RenewalIds : renewals[i] = NoRenewal
  THEN CHOOSE i \in RenewalIds :
         /\ renewals[i] = NoRenewal
         /\ \A j \in RenewalIds : renewals[j] = NoRenewal => i <= j
  ELSE 0

\* A renewal is "undisturbed" while no Token Manager operation other than
\* renew() touched its key since it was started (history, not program state).
Disturb(rs, key) ==
  [i \in RenewalIds |->
     IF rs[i] # NoRenewal /\ rs[i].key = key
     THEN [rs[i] EXCEPT !.undisturbed = FALSE] ELSE rs[i]]

DisturbAll(rs) ==
  [i \in RenewalIds |->
     IF rs[i] # NoRenewal THEN [rs[i] EXCEPT !.undisturbed = FALSE] ELSE rs[i]]

----------------------------------------------------------------------------
(* Token Manager: events *)

EvExpired(key, token) == [name |-> "expired", key |-> key, token |-> token]
EvRemoved(key) == [name |-> "removed", key |-> key]
EvRenewed(key, fresh, old) ==
  [name |-> "renewed", key |-> key, token |-> fresh, oldToken |-> old]
EvError(errName, key, isAccess) ==
  [name |-> "error", err |-> errName, tokenKey |-> key, accessToken |-> isAccess]

----------------------------------------------------------------------------
(* Token Manager: what a turn reports (history, read by the properties) *)

\* the value a renewal promise settles with
NoOutcome == [type |-> "none"]
Undefined == [kind |-> "undefined"]
Resolved(value) == [type |-> "resolved", value |-> value]
Rejected(errName) == [type |-> "rejected", err |-> errName]

\* op: the turn; key: its key; id: the renewal promise it returned or ran;
\* ret: what it returned; outcome: how the promise settled
Last(op, key, id, ret, outcome) ==
  [op |-> op, key |-> key, id |-> id, ret |-> ret, outcome |-> outcome]

NoKey == "-"

----------------------------------------------------------------------------
(* Token Manager: state after construction (TokenManager.ts:205-300), over *)
(* an empty storage                                                         *)

InitTM ==
  /\ store = [k \in Keys |-> NoToken]
  /\ expireTimeouts = [k \in Keys |-> NoTimer]
  /\ renewPromise = [k \in Keys |-> NoPromise]
  /\ renewals = [i \in RenewalIds |-> NoRenewal]
  /\ now = 0
  /\ autoRenew \in BOOLEAN
  /\ emitted = <<>>
  /\ last = Last("init", NoKey, 0, "none", NoOutcome)

----------------------------------------------------------------------------
(* Token Manager: add, remove, clear *)

\* get(storage, key)
get(key) == store[key]

\* an add() that writes a storage holding nothing but the new token
StoreReplacedOnAdd(st, key, token) ==
  [k \in Keys |-> IF k = key THEN token ELSE NoToken]

\* tokenStorage[key] = token; storage.setStorage(tokenStorage)
StoreAfterAdd(st, key, token) == [st EXCEPT ![key] = token]

\* add(sdk, tokenMgmtRef, storage, key, token) with a valid token
Add(key, token) ==
  /\ store' = StoreAfterAdd(store, key, token)
  /\ expireTimeouts' = [TimersAfterClear(expireTimeouts, key) EXCEPT ![key] = NewTimer(token)]
  /\ renewPromise' = PromisesAfterClear(renewPromise, key)
  /\ renewals' = Disturb(renewals, key)
  /\ emitted' = <<>>
  /\ last' = Last("add", key, 0, "none", NoOutcome)
  /\ UNCHANGED <<now, autoRenew>>

\* remove(tokenMgmtRef, storage, key): clearExpireEventTimeout, the storage
\* write, emitRemoved
RemoveToken(key) ==
  /\ expireTimeouts' = TimersAfterClear(expireTimeouts, key)
  /\ renewPromise' = PromisesAfterClear(renewPromise, key)
  /\ store' = [store EXCEPT ![key] = NoToken]
  /\ renewals' = Disturb(renewals, key)
  /\ emitted' = <<EvRemoved(key)>>

\* a caller calls tokenManager.remove(key)
Remove(key) ==
  /\ RemoveToken(key)
  /\ last' = Last("remove", key, 0, "none", NoOutcome)
  /\ UNCHANGED <<now, autoRenew>>

\* a clear() that leaves the expiration timers running
TimersKeptOnClear(timers) == timers

\* clearExpireEventTimeoutAll(tokenMgmtRef): the timer table afterwards (every
\* handle in it is cleared and deleted)
TimersAfterClearAll(timers) == [k \in Keys |-> NoTimer]

\* clear(tokenMgmtRef, storage): clearExpireEventTimeoutAll, then
\* storage.clearStorage(); no event is emitted
ClearTokens ==
  /\ expireTimeouts' = TimersAfterClearAll(expireTimeouts)
  /\ renewPromise' = [k \in Keys |->
                        IF k \in TimerKeys THEN NoPromise ELSE renewPromise[k]]
  /\ store' = [k \in Keys |-> NoToken]
  /\ renewals' = DisturbAll(renewals)
  /\ emitted' = <<>>

\* a caller calls tokenManager.clear()
Clear ==
  /\ ClearTokens
  /\ last' = Last("clear", NoKey, 0, "none", NoOutcome)
  /\ UNCHANGED <<now, autoRenew>>

----------------------------------------------------------------------------
(* Token Manager: renew *)

\* a renew() that does not look for a cached promise
ExistingPromiseIgnored(key) == NoPromise

\* tokenMgmtRef.renewPromise[key] as renew() reads it
ExistingPromise(key) == renewPromise[key]

\* what renew(key) does: return the cached promise, reject with the
\* "no token for the key" AuthSdkError, or start a provider exchange
RenewReturn(key) ==
  IF ExistingPromise(key) # NoPromise THEN "existing"
  ELSE IF get(key) = NoToken THEN "absent"
  ELSE "started"

\* the promise renew(key) returns (0: an already rejected promise)
RenewId(key) ==
  IF RenewReturn(key) = "existing" THEN ExistingPromise(key)
  ELSE IF RenewReturn(key) = "started" THEN FreeId
  ELSE 0

\* the record of the promise chain renew() builds around sdk.token.renew(token)
\* (cancelled: whether renew() cancelled a timer that had not fired yet; history)
NewRenewal(key, timers) ==
  [stage |-> "pending", key |-> key, token |-> get(key),
   outcome |-> NoOutcome, undisturbed |-> TRUE,
   cancelled |-> (timers[key] # NoTimer /\ ~timers[key].fired)]

\* renew(sdk, tokenMgmtRef, storage, key), called with the timer table `timers`
RenewCall(key, timers) ==
  /\ RenewReturn(key) = "started" => FreeId # 0
  /\ IF RenewReturn(key) = "started"
     THEN /\ expireTimeouts' = TimersAfterClear(timers, key)
          /\ renewPromise' = [PromisesAfterClear(renewPromise, key) EXCEPT ![key] = FreeId]
          /\ renewals' = [renewals EXCEPT ![FreeId] = NewRenewal(key, timers)]
     ELSE /\ expireTimeouts' = timers
          /\ UNCHANGED <<renewPromise, renewals>>
  /\ UNCHANGED store

\* a caller calls tokenManager.renew(key)
Renew(key) ==
  /\ RenewCall(key, expireTimeouts)
  /\ emitted' = <<>>
  /\ last' = Last("renew", key, RenewId(key), RenewReturn(key), NoOutcome)
  /\ UNCHANGED <<now, autoRenew>>

\* the tokens sdk.token.renew(token) can resolve with: any valid Token
FreshTokens(token) == Tokens

\* a then-callback that stores the fresh token without looking at the store
StillStoredUnchecked(key) == TRUE

\* var oldToken = get(storage, key); if (!oldToken) return;
StillStored(key) == get(key) # NoToken

\* .then(function(freshToken) {...}) of renew(): sdk.token.renew resolved
RenewThen(id, fresh) ==
  /\ renewals[id] # NoRenewal
  /\ renewals[id].stage = "pending"
  /\ fresh \in FreshTokens(renewals[id].token)
  /\ LET key == renewals[id].key
         oldToken == get(key)
     IN IF ~StillStored(key)
        THEN /\ renewals' = [Disturb(renewals, key) EXCEPT
                               ![id].stage = "settling", ![id].cancelled = FALSE,
                               ![id].outcome = Resolved(Undefined)]
             /\ emitted' = <<>>
             /\ last' = Last("renewThen", key, id, "discarded", NoOutcome)
             /\ UNCHANGED <<store, expireTimeouts, renewPromise>>
        ELSE /\ store' = [store EXCEPT ![key] = fresh]
             /\ expireTimeouts' =
                  [TimersAfterClear(expireTimeouts, key) EXCEPT ![key] = NewTimer(fresh)]
             /\ renewPromise' = PromisesAfterClear(renewPromise, key)
             /\ renewals' = [Disturb(renewals, key) EXCEPT
                               ![id].stage = "settling", ![id].cancelled = FALSE,
                               ![id].outcome = Resolved(fresh)]
             /\ emitted' = <<EvRenewed(key, fresh, oldToken)>>
             /\ last' = Last("renewThen", key, id, "stored", NoOutcome)
  /\ UNCHANGED <<now, autoRenew>>

\* a catch-callback that recognises provider rejections only
RemovesTokenOAuthOnly(errName) == errName = "OAuthError"

\* err.name === 'OAuthError' || err.name === 'AuthSdkError'
RemovesToken(errName) == errName = "OAuthError" \/ errName = "AuthSdkError"

\* !!token.accessToken
IsAccessToken(token) == token.kind = "access"

\* .catch(function(err) {...}) of renew(): sdk.token.renew rejected
RenewCatch(id, errName) ==
  /\ renewals[id] # NoRenewal
  /\ renewals[id].stage = "pending"
  /\ LET key == renewals[id].key
         token == renewals[id].token
     IN /\ renewals' = [Disturb(renewals, key) EXCEPT
                          ![id].stage = "settling", ![id].cancelled = FALSE,
                          ![id].outcome = Rejected(errName)]
        /\ IF RemovesToken(errName)
           THEN /\ expireTimeouts' = TimersAfterClear(expireTimeouts, key)
                /\ renewPromise' = PromisesAfterClear(renewPromise, key)
                /\ store' = [store EXCEPT ![key] = NoToken]
                /\ emitted' = <<EvRemoved(key), EvError(errName, key, IsAccessToken(token))>>
                /\ last' = Last("renewCatch", key, id, "removed", NoOutcome)
           ELSE /\ emitted' = <<>>
                /\ last' = Last("renewCatch", key, id, "rethrown", NoOutcome)
                /\ UNCHANGED <<store, expireTimeouts, renewPromise>>
  /\ UNCHANGED <<now, autoRenew>>

\* a finally-callback that leaves the cache as it is
PromisesKeptOnSettle(promises, key) == promises

\* delete tokenMgmtRef.renewPromise[key] in the finally-callback
PromisesAfterSettle(promises, key) == [promises EXCEPT ![key] = NoPromise]

\* .finally(function() {...}) of renew(): the promise settles for its callers
RenewFinally(id) ==
  /\ renewals[id] # NoRenewal
  /\ renewals[id].stage = "settling"
  /\ LET key == renewals[id].key
     IN /\ renewPromise' = PromisesAfterSettle(renewPromise, key)
        /\ renewals' = [Disturb(renewals, key) EXCEPT ![id] = NoRenewal]
        /\ last' = Last("settled", key, id, "none", renewals[id].outcome)
  /\ emitted' = <<>>
  /\ UNCHANGED <<store, expireTimeouts, now, autoRenew>>

----------------------------------------------------------------------------
(* Token Manager: clock and expiration timers *)

\* time passes
Tick ==
  /\ now < MaxNow
  /\ now' = now + 1
  /\ emitted' = <<>>
  /\ last' = Last("tick", NoKey, 0, "none", NoOutcome)
  /\ UNCHANGED <<store, expireTimeouts, renewPromise, renewals, autoRenew>>

\* an expired handler that never renews
RemovesOnExpired == FALSE

\* if (options.autoRenew) of onTokenExpiredHandler
RenewsOnExpired == autoRenew

\* the setTimeout callback of setExpireEventTimeout fires: emitExpired, then
\* onTokenExpiredHandler (renew with its rejection swallowed, or remove)
TimerFire(key) ==
  /\ expireTimeouts[key] # NoTimer
  /\ ~expireTimeouts[key].fired
  /\ TimerDue(expireTimeouts[key])
  /\ LET firedTimers == [expireTimeouts EXCEPT ![key].fired = TRUE]
         token == expireTimeouts[key].token
     IN IF RenewsOnExpired
        THEN /\ RenewCall(key, firedTimers)
             /\ emitted' = <<EvExpired(key, token)>>
             /\ last' = Last("expired", key, RenewId(key), RenewReturn(key), NoOutcome)
        ELSE /\ expireTimeouts' = TimersAfterClear(firedTimers, key)
             /\ renewPromise' = PromisesAfterClear(renewPromise, key)
             /\ store' = [store EXCEPT ![key] = NoToken]
             /\ renewals' = Disturb(renewals, key)
             /\ emitted' = <<EvExpired(key, token), EvRemoved(key)>>
             /\ last' = Last("expired", key, 0, "removed", NoOutcome)
  /\ UNCHANGED <<now, autoRenew>>


----------------------------------------------------------------------------
(* Auth State Manager: state after construction (AuthStateManager.ts:24-44) *)

\* DEFAULT_AUTH_STATE
DEFAULT_AUTH_STATE ==
  [isPending |-> TRUE, isAuthenticated |-> FALSE, idToken |-> Null, accessToken |-> Null]

\* DEFAULT_PENDING (updateAuthStatePromise: 0 is null, else the position of
\* the promise in comps)
DEFAULT_PENDING == [updateAuthStatePromise |-> 0, canceledTimes |-> 0]

\* tokenManager._getTokens(): the id and access tokens of the storage `st`
\* (read when it is called, as tokenManager.get does)
GetTokens(st) ==
  [accessToken |-> st[ACCESS_TOKEN_STORAGE_KEY], idToken |-> st[ID_TOKEN_STORAGE_KEY]]

\* req: what the storage held at the last updateAuthState call; dropped: a call
\* was dropped since the last one that started a recomputation; emits: the
\* authStateChange events since a call last found no recomputation pending
NoHist == [req |-> GetTokens([k \in Keys |-> NoToken]), dropped |-> FALSE, emits |-> 0]

InitASM ==
  /\ authState = DEFAULT_AUTH_STATE
  /\ pending = DEFAULT_PENDING
  /\ comps = <<>>
  /\ isAuthenticatedOpt \in BOOLEAN
  /\ hist = NoHist

----------------------------------------------------------------------------
(* Auth State Manager: updateAuthState *)

\* an onCancel handler that forgets to count the cancellation
OnCancelUncounted(pd) == [pd EXCEPT !.updateAuthStatePromise = 0]

\* onCancel(() => {...}): the handler cancel() runs
OnCancel(pd) ==
  [updateAuthStatePromise |-> 0, canceledTimes |-> pd.canceledTimes + 1]

\* a cancel() that leaves the promise running
CancelForgotten(cs, p) == cs

\* this._pending.updateAuthStatePromise.cancel(): isCanceled is set
Cancel(cs, p) == [cs EXCEPT ![p].isCanceled = TRUE]

\* a ceiling that lets one cancellation too many through
ShouldDropLate ==
  /\ pending.updateAuthStatePromise # 0
  /\ pending.canceledTimes > MAX_PROMISE_CANCEL_TIMES

\* the call is dropped: a recomputation is pending and was re-started
\* MAX_PROMISE_CANCEL_TIMES times
ShouldDrop ==
  /\ pending.updateAuthStatePromise # 0
  /\ pending.canceledTimes >= MAX_PROMISE_CANCEL_TIMES

\* new PCancelable(...): _getTokens() is called on the storage `st`
\* (superseded: a recomputation started later has emitted; history)
NewComp(st) ==
  [stage |-> "tokens", isCanceled |-> FALSE,
   accessToken |-> GetTokens(st).accessToken, idToken |-> GetTokens(st).idToken,
   superseded |-> FALSE]

\* updateAuthState({ event, key, token }) while the storage holds `st`
UpdateAuthState(st) ==
  IF ShouldDrop
  THEN /\ hist' = [hist EXCEPT !.req = GetTokens(st), !.dropped = TRUE]
       /\ UNCHANGED <<authState, pending, comps, isAuthenticatedOpt>>
  ELSE LET had == pending.updateAuthStatePromise # 0
           cs == IF had THEN Cancel(comps, pending.updateAuthStatePromise) ELSE comps
           pd == IF had THEN OnCancel(pending) ELSE pending
       IN /\ Len(comps) < MaxInFlight
          /\ comps' = Append(cs, NewComp(st))
          /\ pending' = [pd EXCEPT !.updateAuthStatePromise = Len(comps) + 1]
          /\ hist' = [req |-> GetTokens(st), dropped |-> FALSE,
                      emits |-> IF had THEN hist.emits ELSE 0]
          /\ UNCHANGED <<authState, isAuthenticatedOpt>>

\* what updateAuthState did, for `last`
UpdateReturn == IF ShouldDrop THEN "dropped" ELSE "started"

\* the promises without the settled one at position p
RemoveAt(cs, p) == SubSeq(cs, 1, p - 1) \o SubSeq(cs, p + 1, Len(cs))

\* this._pending once the promise at position p has left comps
ShiftPending(pd, p) ==
  IF pd.updateAuthStatePromise > p
  THEN [pd EXCEPT !.updateAuthStatePromise = pd.updateAuthStatePromise - 1]
  ELSE IF pd.updateAuthStatePromise = p
       THEN [pd EXCEPT !.updateAuthStatePromise = 0]
       ELSE pd

\* a recomputation that passes expired tokens on
DemoteNever(token) == token

\* if (token && this._sdk.tokenManager.hasExpired(token)) token = null
Demote(token) == IF token \in Tokens /\ hasExpired(token) THEN Null ELSE token

\* JavaScript truthiness of a token read
Truthy(token) == token \notin {Null, NoToken, Undefined, False}

\* if (cancelablePromise.isCanceled) after the token read
CanceledAfterTokens(c) == c.isCanceled

\* the reaction to _getTokens() of the promise at position p
TokensResolve(p) ==
  /\ p \in 1..Len(comps)
  /\ comps[p].stage = "tokens"
  /\ IF CanceledAfterTokens(comps[p])
     THEN /\ comps' = RemoveAt(comps, p)
          /\ pending' = ShiftPending(pending, p)
          /\ last' = Last("tokensResolve", NoKey, p, "canceled", NoOutcome)
     ELSE /\ comps' = [comps EXCEPT ![p].stage = "predicate",
                                    ![p].accessToken = Demote(comps[p].accessToken),
                                    ![p].idToken = Demote(comps[p].idToken)]
          /\ pending' = pending
          /\ last' = Last("tokensResolve", NoKey, p, "read", NoOutcome)
  /\ emitted' = <<>>
  /\ UNCHANGED <<authState, isAuthenticatedOpt, hist>>
  /\ UNCHANGED <<store, expireTimeouts, renewPromise, renewals, now, autoRenew>>

\* a default rule that is content with one of the two tokens
PredicateResultsEitherToken(c) ==
  IF isAuthenticatedOpt THEN BOOLEAN
  ELSE {Truthy(c.accessToken) \/ Truthy(c.idToken)}

\* what the isAuthenticated promise of recomputation c can resolve with
PredicateResults(c) ==
  IF isAuthenticatedOpt THEN BOOLEAN
  ELSE {Truthy(c.accessToken) /\ Truthy(c.idToken)}

\* a recomputation that emits although it was canceled
CanceledAfterPredicateUnchecked(c) == FALSE

\* if (cancelablePromise.isCanceled) after the predicate
CanceledAfterPredicate(c) == c.isCanceled

EvAuthStateChange(state) == [name |-> "authStateChange", authState |-> state]

\* a snapshot that keeps the isPending of the one it replaces
NewAuthStateStillPending(c, isAuthenticated) ==
  [isPending |-> authState.isPending, isAuthenticated |-> isAuthenticated,
   idToken |-> c.idToken, accessToken |-> c.accessToken]

\* the snapshot emitAuthStateChange is called with
NewAuthState(c, isAuthenticated) ==
  [isPending |-> FALSE, isAuthenticated |-> isAuthenticated,
   idToken |-> c.idToken, accessToken |-> c.accessToken]

\* the promises after the one at position p emitted: it leaves, and the older
\* ones have been overtaken
AfterEmit(cs, p) ==
  RemoveAt([q \in 1..Len(cs) |->
              IF q < p THEN [cs[q] EXCEPT !.superseded = TRUE] ELSE cs[q]], p)

\* an emission that frees the slot and keeps the count of cancellations
PendingAfterEmitCounterKept ==
  [DEFAULT_PENDING EXCEPT !.canceledTimes = pending.canceledTimes]

\* this._pending = { ...DEFAULT_PENDING } after emitAuthStateChange
PendingAfterEmit == DEFAULT_PENDING

\* the reaction to the isAuthenticated promise of the promise at position p
PredicateResolve(p, isAuthenticated) ==
  /\ p \in 1..Len(comps)
  /\ comps[p].stage = "predicate"
  /\ isAuthenticated \in PredicateResults(comps[p])
  /\ IF CanceledAfterPredicate(comps[p])
     THEN /\ comps' = RemoveAt(comps, p)
          /\ pending' = ShiftPending(pending, p)
          /\ emitted' = <<>>
          /\ last' = Last("predicateResolve", NoKey, p, "canceled", NoOutcome)
          /\ UNCHANGED <<authState, hist>>
     ELSE /\ authState' = NewAuthState(comps[p], isAuthenticated)
          /\ emitted' = <<EvAuthStateChange(NewAuthState(comps[p], isAuthenticated))>>
          /\ pending' = PendingAfterEmit
          /\ comps' = AfterEmit(comps, p)
          /\ hist' = [hist EXCEPT !.emits = IF hist.emits < 2 THEN hist.emits + 1 ELSE 2]
          /\ last' = Last("predicateResolve", NoKey, p, "emitted", NoOutcome)
  /\ UNCHANGED isAuthenticatedOpt
  /\ UNCHANGED <<store, expireTimeouts, renewPromise, renewals, now, autoRenew>>

\* a caller calls updateAuthState()
UpdateCall ==
  /\ UpdateAuthState(store)
  /\ emitted' = <<>>
  /\ last' = Last("updateAuthState", NoKey, 0, UpdateReturn, NoOutcome)
  /\ UNCHANGED <<store, expireTimeouts, renewPromise, renewals, now, autoRenew>>

\* a caller calls getAuthState()
GetAuthStateCall ==
  /\ last' = Last("getAuthState", NoKey, 0, "returned", Resolved(authState))
  /\ emitted' = <<>>
  /\ UNCHANGED asmVars
  /\ UNCHANGED <<store, expireTimeouts, renewPromise, renewals, now, autoRenew>>

\* the token of the kind the key is meant for (handleAuthentication)
TokenOf(key) == IF key = ID_TOKEN_STORAGE_KEY THEN IdToken ELSE AccessToken


----------------------------------------------------------------------------
(* The token API of the SDK instance (browser.ts:157-178): every method    *)
(* but the synchronous ones is called through this._tokenQueue             *)

\* the keys of this.token
TokenMethods ==
  {"getWithoutPrompt", "getWithPopup", "getWithRedirect", "parseFromUrl", "decode",
   "revoke", "renew", "getUserInfo", "verify", "isLoginRedirect"}

\* const syncMethods = ['decode', 'isLoginRedirect']
SyncMethods == {"decode", "isLoginRedirect"}

\* decodeToken and isLoginRedirect return a value, the other methods a promise
ReturnsPromise(method) == method \notin {"decode", "isLoginRedirect"}

\* a syncMethods list that also names renew
QueuedButRenew(method) == method \notin SyncMethods \cup {"renew"}

\* the method is replaced by PromiseQueue.prototype.push.bind(this._tokenQueue,
\* method, null)
Queued(method) == method \notin SyncMethods

\* new PromiseQueue(); ops: the token API operations called so far, each with
\* its method, whether it went through the queue and how far it is (history)
EmptyQueue == [queue |-> <<>>, running |-> FALSE, ops |-> <<>>]

\* the queue starts its oldest waiting operation unless one is running
RunQueue(tq) ==
  IF tq.running \/ tq.queue = <<>>
  THEN tq
  ELSE [tq EXCEPT !.running = TRUE,
                  !.queue = Tail(@),
                  !.ops[Head(tq.queue)].stage = "running"]

\* PromiseQueue.prototype.push(method, null, ...args)
Push(tq, method) ==
  RunQueue([tq EXCEPT !.queue = Append(@, Len(tq.ops) + 1),
                      !.ops = Append(@, [method |-> method, queued |-> TRUE,
                                         stage |-> "queued"])])

\* a method that was not wrapped is called as it is
Direct(tq, method) ==
  [tq EXCEPT !.ops = Append(@, [method |-> method, queued |-> FALSE,
                                stage |-> IF ReturnsPromise(method)
                                          THEN "running" ELSE "returned"])]

\* this.token[method](...)
TokenApi(tq, method) == IF Queued(method) THEN Push(tq, method) ELSE Direct(tq, method)

\* the application calls sdk.token[method](...)
TokenCall(method) ==
  /\ Len(tokenQueue.ops) < MaxCalls
  /\ tokenQueue' = TokenApi(tokenQueue, method)
  /\ UNCHANGED login

SettleOutcomes == {"resolved", "rejected"}

\* the promise of operation i settles; the queue moves on
TokenSettle(i, outcome) ==
  /\ i \in 1..Len(tokenQueue.ops)
  /\ tokenQueue.ops[i].stage = "running"
  /\ tokenQueue' =
       IF tokenQueue.ops[i].queued
       THEN RunQueue([tokenQueue EXCEPT !.ops[i].stage = outcome, !.running = FALSE])
       ELSE [tokenQueue EXCEPT !.ops[i].stage = outcome]
  /\ UNCHANGED login

----------------------------------------------------------------------------
(* login (browser.ts:364-379)                                               *)

\* this._pending = { handleLogin: false }; calls: the login() calls so far
NoLogin == [handleLogin |-> False, onAuthRequired |-> FALSE, calls |-> <<>>]

InitBrowser == tokenQueue = EmptyQueue /\ login = NoLogin

\* login(fromUri, additionalParams) up to its await
Login ==
  /\ Len(login.calls) < MaxLogins
  /\ IF Truthy(login.handleLogin)
     THEN /\ login' = [login EXCEPT !.calls = Append(@, [stage |-> "returned",
                                                          triggered |-> "nothing", op |-> 0])]
          /\ UNCHANGED tokenQueue
     ELSE IF login.onAuthRequired
          THEN /\ login' = [login EXCEPT !.calls =
                              Append(@, [stage |-> "awaiting",
                                         triggered |-> "onAuthRequired", op |-> 0])]
               /\ UNCHANGED tokenQueue
          ELSE /\ Len(tokenQueue.ops) < MaxCalls
               /\ tokenQueue' = TokenApi(tokenQueue, "getWithRedirect")
               /\ login' = [login EXCEPT !.calls =
                              Append(@, [stage |-> "awaiting",
                                         triggered |-> "loginRedirect",
                                         op |-> Len(tokenQueue.ops) + 1])]

\* the promise login() call c awaits has settled: finally
LoginSettles(c) ==
  /\ c \in 1..Len(login.calls)
  /\ login.calls[c].stage = "awaiting"
  /\ login.calls[c].triggered = "loginRedirect" =>
       tokenQueue.ops[login.calls[c].op].stage \in SettleOutcomes
  /\ login' = [login EXCEPT !.handleLogin = Null, !.calls[c].stage = "settled"]
  /\ UNCHANGED tokenQueue

----------------------------------------------------------------------------
(* Sign-out: strings, errors and options *)

\* a string is a sequence of characters; "" is the empty sequence
Origin == <<"h", ":", "/", "/", "a">>
Route == Origin \o <<"/", "r">>
Hrefs == {Origin, Route}
ConfiguredUri == <<"h", ":", "/", "/", "c">>
OptionUris == {<<>>, Route, <<"h", ":", "/", "/", "o", "?", "x", "=", "1">>}
StateParams == {<<>>, <<"a", "=", "b", " ", "&", "%">>}

\* getOAuthUrls(this).logoutUrl
LogoutUrl == <<"h", ":", "/", "/", "i", "/", "l", "o", "g", "o", "u", "t">>

\* idToken.idToken: the raw JWT of an ID token (undefined on any other value)
IdTokenHint(token) ==
  IF token.kind = "id" THEN <<"j", ".", "w", ".", "t">>
  ELSE <<"u", "n", "d", "e", "f", "i", "n", "e", "d">>

\* encodeURIComponent of one character: letters, digits and - _ . ! ~ * ' ( )
\* stay, anything else becomes its percent escape
Escape(c) ==
  CASE c = ":" -> <<"%", "3", "A">>
    [] c = "/" -> <<"%", "2", "F">>
    [] c = "?" -> <<"%", "3", "F">>
    [] c = "=" -> <<"%", "3", "D">>
    [] c = "&" -> <<"%", "2", "6">>
    [] c = " " -> <<"%", "2", "0">>
    [] c = "%" -> <<"%", "2", "5">>
    [] OTHER -> <<c>>

RECURSIVE encodeURIComponent(_)
encodeURIComponent(s) ==
  IF s = <<>> THEN <<>> ELSE Escape(Head(s)) \o encodeURIComponent(Tail(s))

\* a || b on strings
OrElse(a, b) == IF a # <<>> THEN a ELSE b

\* the errors the collaborators reject with
NotFoundError == [name |-> "AuthApiError", errorCode |-> "E0000007"]
ApiError == [name |-> "AuthApiError", errorCode |-> "E0000011"]
\* new Error(...): it has no errorCode
OtherError == [name |-> "Error", errorCode |-> "undefined"]
StorageError == [name |-> "AuthSdkError", errorCode |-> "INTERNAL"]
NoError == [name |-> "none"]

\* what token.revoke and session.close can settle with
RevokeOutcomes == {Resolved(Undefined), Rejected(ApiError)}
SessionCloseOutcomes ==
  {Resolved(Undefined), Rejected(NotFoundError), Rejected(ApiError), Rejected(OtherError)}

\* the options signOut can be called with (a missing option is undefined, a
\* missing string is "")
SignOutOptions ==
  [idToken : {Undefined, False, IdToken},
   accessToken : {Undefined, False, AccessToken},
   revokeAccessToken : {Undefined, False},
   postLogoutRedirectUri : OptionUris,
   state : StateParams]

----------------------------------------------------------------------------
(* Sign-out: the calls signOut makes to its collaborators, in order *)

CallGet(key, value) ==
  [call |-> "get", key |-> key, read |-> value, outcome |-> NoOutcome]
CallClear == [call |-> "clear", outcome |-> Resolved(Undefined)]
CallRevoke(token) == [call |-> "revoke", token |-> token, outcome |-> NoOutcome]
CallSessionClose == [call |-> "sessionClose", outcome |-> NoOutcome]
CallAssign(url) == [call |-> "assign", url |-> url, outcome |-> Resolved(Undefined)]
CallReload == [call |-> "reload", outcome |-> Resolved(Undefined)]
CallRemove(key) == [call |-> "remove", key |-> key, outcome |-> Resolved(Undefined)]

\* the call signOut is waiting for has settled
Settle(calls, outcome) == [calls EXCEPT ![Len(calls)].outcome = outcome]

\* no signOut has been called
NoSignOut ==
  [pc |-> "idle", opts |-> [idToken |-> Undefined, accessToken |-> Undefined,
                            revokeAccessToken |-> Undefined,
                            postLogoutRedirectUri |-> <<>>, state |-> <<>>],
   idToken |-> Undefined, accessToken |-> Undefined, calls |-> <<>>,
   cleared |-> FALSE, error |-> NoError]

\* no closeSession() or revokeAccessToken() has been called
NoApiCall ==
  [op |-> "none", pc |-> "idle", token |-> Undefined, calls |-> <<>>,
   error |-> NoError]

InitSO ==
  /\ so = NoSignOut
  /\ api = NoApiCall
  /\ href \in Hrefs
  /\ configUri \in {<<>>, ConfiguredUri}

\* a page that does not sign out
InitNoSignOut == InitSO /\ href = Origin /\ configUri = <<>>

----------------------------------------------------------------------------
(* Sign-out: signOut (browser.ts:260-316), one definition per stretch of    *)
(* code that runs without waiting; s is the execution so far                *)

\* a signOut that does not look at the configured post-logout redirect URI
ConfiguredUriIgnored(opts) == OrElse(opts.postLogoutRedirectUri, Origin)

\* options.postLogoutRedirectUri || this.options.postLogoutRedirectUri || defaultUri
PostLogoutRedirectUri(opts) ==
  OrElse(opts.postLogoutRedirectUri, OrElse(configUri, Origin))

\* a signOut that revokes whatever options.revokeAccessToken says
RevokeAlways(opts) == TRUE

\* options.revokeAccessToken !== false
RevokeEnabled(opts) == opts.revokeAccessToken # False

\* logoutUrl + '?id_token_hint=' + ... + '&post_logout_redirect_uri=' + ...
\* [+ '&state=' + ...]
LogoutUri(s) ==
  LogoutUrl
    \o <<"?", "i", "d", "_", "t", "o", "k", "e", "n", "_", "h", "i", "n", "t", "=">>
    \o encodeURIComponent(IdTokenHint(s.idToken))
    \o <<"&", "p", "o", "s", "t", "_", "l", "o", "g", "o", "u", "t", "_",
         "r", "e", "d", "i", "r", "e", "c", "t", "_", "u", "r", "i", "=">>
    \o encodeURIComponent(PostLogoutRedirectUri(s.opts))
    \o (IF s.opts.state # <<>>
        THEN <<"&", "s", "t", "a", "t", "e", "=">> \o encodeURIComponent(s.opts.state)
        ELSE <<>>)

\* the awaited step rejected: signOut rejects with its error
Fail(s, err) == [s EXCEPT !.pc = "rejected", !.error = err]

\* a signOut that redirects to the provider logout URL without an ID token
RedirectWithoutIdToken(s) ==
  [s EXCEPT !.calls = Append(@, CallAssign(LogoutUri(s))), !.pc = "resolved"]

\* if (!idToken) return this.closeSession()...: closeSession clears the tokens
\* and calls session.close(); else window.location.assign(logoutUri)
CloseOrRedirect(s) ==
  IF ~Truthy(s.idToken)
  THEN [s EXCEPT !.calls = Append(Append(@, CallClear), CallSessionClose),
                 !.cleared = TRUE, !.pc = "awaitClose"]
  ELSE [s EXCEPT !.calls = Append(@, CallAssign(LogoutUri(s))), !.pc = "resolved"]

\* a signOut that revokes before it clears the tokens
RevokeWithoutClear(s) ==
  IF RevokeEnabled(s.opts) /\ Truthy(s.accessToken)
  THEN [s EXCEPT !.calls = Append(@, CallRevoke(s.accessToken)),
                 !.pc = "awaitRevoke"]
  ELSE CloseOrRedirect(s)

\* this.tokenManager.clear(); if (revokeAccessToken && accessToken) await
\* this.revokeAccessToken(accessToken): with a token, revokeAccessToken calls
\* token.revoke at once
ClearAndRevoke(s) ==
  LET s1 == [s EXCEPT !.calls = Append(@, CallClear), !.cleared = TRUE]
  IN IF RevokeEnabled(s.opts) /\ Truthy(s.accessToken)
     THEN [s1 EXCEPT !.calls = Append(@, CallRevoke(s.accessToken)),
                     !.pc = "awaitRevoke"]
     ELSE CloseOrRedirect(s1)

\* if (revokeAccessToken && typeof accessToken === 'undefined') accessToken =
\* await this.tokenManager.get(ACCESS_TOKEN_STORAGE_KEY)
ReadAccessToken(s) ==
  IF RevokeEnabled(s.opts) /\ s.accessToken = Undefined
  THEN [s EXCEPT !.calls = Append(@, CallGet(ACCESS_TOKEN_STORAGE_KEY,
                                             get(ACCESS_TOKEN_STORAGE_KEY))),
                 !.pc = "awaitAccessToken"]
  ELSE ClearAndRevoke(s)

\* signOut(options) up to its first await
Start(opts) ==
  LET s == [NoSignOut EXCEPT !.opts = opts, !.idToken = opts.idToken,
                             !.accessToken = opts.accessToken]
  IN IF opts.idToken = Undefined
     THEN [s EXCEPT !.calls = <<CallGet(ID_TOKEN_STORAGE_KEY,
                                        get(ID_TOKEN_STORAGE_KEY))>>,
                    !.pc = "awaitIdToken"]
     ELSE ReadAccessToken(s)

\* one turn of signOut that leaves the execution as s
SignOutTurn(s) ==
  /\ so' = s
  /\ IF s.cleared
     THEN ClearTokens
     ELSE /\ emitted' = <<>>
          /\ UNCHANGED <<store, expireTimeouts, renewPromise, renewals>>
  /\ last' = Last("signOut", NoKey, 0, s.pc, NoOutcome)
  /\ UNCHANGED <<now, autoRenew, href, configUri, api>>

\* the execution when a turn begins
Resume == [so EXCEPT !.cleared = FALSE]

\* the application calls signOut(options); a page that navigated is gone
SignOut(opts) ==
  /\ so.pc \in {"idle", "rejected"}
  /\ SignOutTurn(Start(opts))

\* what the pending tokenManager.get settles with: the value it read, or the
\* error of a storage that cannot be read
ReadOutcome(readable) ==
  IF readable THEN Resolved(so.calls[Len(so.calls)].read) ELSE Rejected(StorageError)

\* await this.tokenManager.get(ID_TOKEN_STORAGE_KEY) settles
IdTokenRead(readable) ==
  /\ so.pc = "awaitIdToken"
  /\ LET outcome == ReadOutcome(readable)
         s == [Resume EXCEPT !.calls = Settle(@, outcome)]
     IN IF outcome.type = "rejected"
        THEN SignOutTurn(Fail(s, outcome.err))
        ELSE SignOutTurn(ReadAccessToken([s EXCEPT !.idToken = outcome.value]))

\* await this.tokenManager.get(ACCESS_TOKEN_STORAGE_KEY) settles
AccessTokenRead(readable) ==
  /\ so.pc = "awaitAccessToken"
  /\ LET outcome == ReadOutcome(readable)
         s == [Resume EXCEPT !.calls = Settle(@, outcome)]
     IN IF outcome.type = "rejected"
        THEN SignOutTurn(Fail(s, outcome.err))
        ELSE SignOutTurn(ClearAndRevoke([s EXCEPT !.accessToken = outcome.value]))

\* await this.revokeAccessToken(accessToken) settles
RevokeSettles(outcome) ==
  /\ so.pc = "awaitRevoke"
  /\ LET s == [Resume EXCEPT !.calls = Settle(@, outcome)]
     IN IF outcome.type = "rejected"
        THEN SignOutTurn(Fail(s, outcome.err))
        ELSE SignOutTurn(CloseOrRedirect(s))

\* a closeSession that rethrows every rejection of session.close()
AbsorbedNever(e) == FALSE

\* a closeSession that swallows every rejection of session.close()
AbsorbedAlways(e) == TRUE

\* e.name === 'AuthApiError' && e.errorCode === 'E0000007'
Absorbed(e) == e.name = "AuthApiError" /\ e.errorCode = "E0000007"

\* session.close() settles: the catch of closeSession returns or rethrows
SessionCloseSettles(outcome) ==
  /\ so.pc = "awaitClose"
  /\ LET s == [Resume EXCEPT !.calls = Settle(@, outcome)]
     IN IF outcome.type = "rejected" /\ ~Absorbed(outcome.err)
        THEN SignOutTurn(Fail(s, outcome.err))
        ELSE SignOutTurn([s EXCEPT !.pc = "closed"])

\* .then(function() {...}) of signOut after closeSession(): reload or assign
CloseSessionThen ==
  /\ so.pc = "closed"
  /\ LET uri == PostLogoutRedirectUri(so.opts)
         nav == IF uri = href THEN CallReload ELSE CallAssign(uri)
     IN SignOutTurn([Resume EXCEPT !.calls = Append(@, nav), !.pc = "resolved"])

----------------------------------------------------------------------------
(* Sign-out over the Token Manager: tokens are added (handleAuthentication) *)
(* and the application signs out                                            *)

NextSO ==
  \/ \E k \in Keys : Add(k, TokenOf(k)) /\ UNCHANGED <<asmVars, soVars, brVars>>
  \/ \E opts \in SignOutOptions : SignOut(opts) /\ UNCHANGED <<asmVars, brVars>>
  \/ \E readable \in BOOLEAN : IdTokenRead(readable) /\ UNCHANGED <<asmVars, brVars>>
  \/ \E readable \in BOOLEAN : AccessTokenRead(readable) /\ UNCHANGED <<asmVars, brVars>>
  \/ \E o \in RevokeOutcomes : RevokeSettles(o) /\ UNCHANGED <<asmVars, brVars>>
  \/ \E o \in SessionCloseOutcomes : SessionCloseSettles(o) /\ UNCHANGED <<asmVars, brVars>>
  \/ CloseSessionThen /\ UNCHANGED <<asmVars, brVars>>

InitSOSpec == InitTM /\ autoRenew = TRUE /\ InitASM /\ isAuthenticatedOpt = FALSE /\ InitSO /\ InitBrowser

SpecSO == InitSOSpec /\ [][NextSO]_vars

----------------------------------------------------------------------------
(* closeSession (browser.ts:232-244) and revokeAccessToken (247-257) called *)
(* by the application                                                       *)

\* one turn of closeSession or revokeAccessToken that touches no token
ApiTurn(a) ==
  /\ api' = a
  /\ emitted' = <<>>
  /\ last' = Last(a.op, NoKey, 0, a.pc, NoOutcome)
  /\ UNCHANGED <<store, expireTimeouts, renewPromise, renewals, now, autoRenew,
                 so, href, configUri>>

\* closeSession(): this.tokenManager.clear(), then this.session.close()
CloseSession ==
  /\ api.pc \in {"idle", "resolved", "rejected"}
  /\ api' = [NoApiCall EXCEPT !.op = "closeSession", !.pc = "awaitClose",
                              !.calls = <<CallClear, CallSessionClose>>]
  /\ ClearTokens
  /\ last' = Last("closeSession", NoKey, 0, "awaitClose", NoOutcome)
  /\ UNCHANGED <<now, autoRenew, so, href, configUri>>

\* .catch(function(e) {...}) of closeSession: session.close() settled
CloseSessionCatch(outcome) ==
  /\ api.op = "closeSession"
  /\ api.pc = "awaitClose"
  /\ LET a == [api EXCEPT !.calls = Settle(@, outcome)]
     IN IF outcome.type = "rejected" /\ ~Absorbed(outcome.err)
        THEN ApiTurn([a EXCEPT !.pc = "rejected", !.error = outcome.err])
        ELSE ApiTurn([a EXCEPT !.pc = "resolved"])

\* revokeAccessToken(accessToken) up to its first await, or to
\* this.token.revoke(accessToken) when a token is given
RevokeAccessToken(token) ==
  /\ api.pc \in {"idle", "resolved", "rejected"}
  /\ LET a == [NoApiCall EXCEPT !.op = "revokeAccessToken", !.token = token]
     IN IF ~Truthy(token)
        THEN ApiTurn([a EXCEPT !.pc = "awaitGet",
                               !.calls = <<CallGet(ACCESS_TOKEN_STORAGE_KEY,
                                                   get(ACCESS_TOKEN_STORAGE_KEY))>>])
        ELSE ApiTurn([a EXCEPT !.pc = "awaitRevoke",
                               !.calls = <<CallRevoke(token)>>])

\* a revokeAccessToken that contacts the provider without a token
NothingToRevokeIgnored(token) == FALSE

\* if (!accessToken) return Promise.resolve()
NothingToRevoke(token) == ~Truthy(token)

\* await this.tokenManager.get(ACCESS_TOKEN_STORAGE_KEY) of revokeAccessToken
\* settles: remove the key, then resolve or call this.token.revoke
RevokeTokenRead(readable) ==
  /\ api.op = "revokeAccessToken"
  /\ api.pc = "awaitGet"
  /\ LET outcome == IF readable THEN Resolved(api.calls[Len(api.calls)].read)
                    ELSE Rejected(StorageError)
         a == [api EXCEPT !.calls = Settle(@, outcome)]
     IN IF outcome.type = "rejected"
        THEN ApiTurn([a EXCEPT !.pc = "rejected", !.error = outcome.err])
        ELSE /\ RemoveToken(ACCESS_TOKEN_STORAGE_KEY)
             /\ LET a1 == [a EXCEPT !.token = outcome.value,
                                    !.calls = Append(@, CallRemove(ACCESS_TOKEN_STORAGE_KEY))]
                    a2 == IF NothingToRevoke(outcome.value)
                          THEN [a1 EXCEPT !.pc = "resolved"]
                          ELSE [a1 EXCEPT !.pc = "awaitRevoke",
                                          !.calls = Append(@, CallRevoke(outcome.value))]
                IN /\ api' = a2
                   /\ last' = Last("revokeAccessToken", NoKey, 0, a2.pc, NoOutcome)
             /\ UNCHANGED <<now, autoRenew, so, href, configUri>>

\* this.token.revoke(accessToken) of revokeAccessToken settles
RevokeTokenSettles(outcome) ==
  /\ api.op = "revokeAccessToken"
  /\ api.pc = "awaitRevoke"
  /\ LET a == [api EXCEPT !.calls = Settle(@, outcome)]
     IN IF outcome.type = "rejected"
        THEN ApiTurn([a EXCEPT !.pc = "rejected", !.error = outcome.err])
        ELSE ApiTurn([a EXCEPT !.pc = "resolved"])

NextBR ==
  \/ \E k \in Keys : Add(k, TokenOf(k)) /\ UNCHANGED <<asmVars, soVars, brVars>>
  \/ CloseSession /\ UNCHANGED <<asmVars, brVars>>
  \/ \E o \in SessionCloseOutcomes : CloseSessionCatch(o) /\ UNCHANGED <<asmVars, brVars>>
  \/ \E t \in {Undefined, AccessToken} : RevokeAccessToken(t) /\ UNCHANGED <<asmVars, brVars>>
  \/ \E readable \in BOOLEAN : RevokeTokenRead(readable) /\ UNCHANGED <<asmVars, brVars>>
  \/ \E o \in RevokeOutcomes : RevokeTokenSettles(o) /\ UNCHANGED <<asmVars, brVars>>
  \/ \E k \in Keys : Remove(k) /\ UNCHANGED <<asmVars, soVars, brVars>>

InitBRSpec == InitTM /\ InitASM /\ isAuthenticatedOpt = FALSE /\ InitNoSignOut /\ InitBrowser

SpecBR == InitBRSpec /\ [][NextBR]_vars

----------------------------------------------------------------------------
(* Token Manager: add() with any value. A value is described by what add()  *)
(* looks at: whether it is an object, whether it has scopes, its expiresAt  *)
(* (written as JavaScript source text) and which of idToken / accessToken   *)
(* it carries                                                               *)

ExpiresAtValues == {"undefined", "0", "31", "'soon'"}

Values ==
  [isObject : BOOLEAN, scopes : BOOLEAN, expiresAt : ExpiresAtValues,
   idToken : BOOLEAN, accessToken : BOOLEAN]

\* !token.expiresAt
NoExpiresAt(value) == value.expiresAt \in {"undefined", "0"}

\* isIDToken(token), isAccessToken(token)
isIDToken(value) == value.idToken
isAccessToken(value) == value.accessToken

\* the condition under which add() throws the AuthSdkError
RejectedByAdd(value) ==
  \/ ~value.isObject
  \/ ~value.scopes
  \/ (NoExpiresAt(value) /\ value.expiresAt # "0")
  \/ (~isIDToken(value) /\ ~isAccessToken(value))

\* add(sdk, tokenMgmtRef, storage, key, value)
AddValue(key, value) ==
  IF RejectedByAdd(value)
  THEN /\ emitted' = <<>>
       /\ last' = Last("add", key, 0, "throws", Rejected("AuthSdkError"))
       /\ UNCHANGED <<store, expireTimeouts, renewPromise, renewals, now, autoRenew>>
  ELSE Add(key, value)

NextAdd ==
  \/ \E k \in Keys, v \in Values : AddValue(k, v) /\ UNCHANGED <<asmVars, soVars, brVars>>
  \/ \E k \in Keys : Remove(k) /\ UNCHANGED <<asmVars, soVars, brVars>>

InitAddSpec == InitTM /\ InitASM /\ isAuthenticatedOpt = FALSE /\ InitNoSignOut /\ InitBrowser

SpecAdd == InitAddSpec /\ [][NextAdd]_vars

----------------------------------------------------------------------------
(* The application calls the token API and login()                          *)

NextLogin ==
  \/ \E method \in TokenMethods : TokenCall(method) /\ UNCHANGED <<tmVars, asmVars, soVars>>
  \/ \E i \in 1..MaxCalls, outcome \in SettleOutcomes :
       TokenSettle(i, outcome) /\ UNCHANGED <<tmVars, asmVars, soVars>>
  \/ Login /\ UNCHANGED <<tmVars, asmVars, soVars>>
  \/ \E c \in 1..MaxLogins : LoginSettles(c) /\ UNCHANGED <<tmVars, asmVars, soVars>>

\* with or without options.onAuthRequired
InitLoginSpec ==
  /\ InitTM /\ autoRenew = TRUE /\ InitASM /\ isAuthenticatedOpt = FALSE
  /\ InitNoSignOut
  /\ tokenQueue = EmptyQueue
  /\ \E b \in BOOLEAN : login = [NoLogin EXCEPT !.onAuthRequired = b]

SpecLogin == InitLoginSpec /\ [][NextLogin]_vars

----------------------------------------------------------------------------
(* Token Manager: construction over a storage that holds the tokens of an  *)
(* earlier page load (TokenManager.ts:205-300, setExpireEventTimeoutAll)    *)

\* a token persisted long enough ago to be past its early expiry at time 1
StaleToken == [kind |-> "id", expiresAt |-> ExpireEarlySeconds]

PersistedTokens == Tokens \cup {StaleToken}

\* the error storage.getStorage() throws, as emitError passes it on
EvStorageError == [name |-> "error", err |-> StorageError]

\* the delays setExpireEventTimeout passes to setTimeout, per key of the
\* storage `st`, at time t (history)
TimeoutWaits(st, t) ==
  [k \in Keys |-> IF st[k] # NoToken THEN ExpireEventWait(st[k], t) ELSE NoTimer]

\* the for loop of setExpireEventTimeoutAll: one setExpireEventTimeout per
\* own key of the storage `st`
TimersOfStorage(st) ==
  [k \in Keys |-> IF st[k] # NoToken THEN NewTimer(st[k]) ELSE NoTimer]

\* before new TokenManager(sdk, options): nothing but the persisted storage
InitPersisted ==
  /\ store \in [Keys -> PersistedTokens \cup {NoToken}]
  /\ expireTimeouts = [k \in Keys |-> NoTimer]
  /\ renewPromise = [k \in Keys |-> NoPromise]
  /\ renewals = [i \in RenewalIds |-> NoRenewal]
  /\ now \in 0..MaxNow
  /\ autoRenew \in BOOLEAN
  /\ emitted = <<>>
  /\ last = Last("load", NoKey, 0, "none", NoOutcome)

\* new TokenManager(sdk, options); readable: storage.getStorage() returns
\* (else it throws into the catch of setExpireEventTimeoutAll)
Construct(readable) ==
  /\ last.op = "load"
  /\ IF readable
     THEN /\ expireTimeouts' = TimersOfStorage(store)
          /\ emitted' = <<>>
          /\ last' = Last("constructor", NoKey, 0, "constructed",
                          Resolved(TimeoutWaits(store, now)))
     ELSE /\ expireTimeouts' = expireTimeouts
          /\ emitted' = <<EvStorageError>>
          /\ last' = Last("constructor", NoKey, 0, "constructed", NoOutcome)
  /\ UNCHANGED <<store, renewPromise, renewals, now, autoRenew>>

\* the Token Manager exists
Constructed == last.op # "load"

NextConstruct ==
  \/ \E readable \in BOOLEAN : Construct(readable) /\ UNCHANGED <<asmVars, soVars, brVars>>
  \/ Constructed /\ Tick /\ UNCHANGED <<asmVars, soVars, brVars>>
  \/ \E k \in Keys : Constructed /\ TimerFire(k) /\ UNCHANGED <<asmVars, soVars, brVars>>

InitConstructSpec ==
  InitPersisted /\ InitASM /\ isAuthenticatedOpt = FALSE /\ InitNoSignOut /\ InitBrowser

SpecConstruct == InitConstructSpec /\ [][NextConstruct]_vars

----------------------------------------------------------------------------
(* Token Manager: hasExpired called by the application, on any token, at   *)
(* any time of the clock                                                    *)

\* the tokens hasExpired is called with: expiresAt from 0 to MaxExpiresAt
ProbeTokens == [kind : {"id", "access"}, expiresAt : 0..MaxExpiresAt]

\* tokenManager.hasExpired(token)
HasExpiredCall(token) ==
  /\ last' = Last("hasExpired", NoKey, 0,
                  IF hasExpired(token) THEN "true" ELSE "false", Resolved(token))
  /\ emitted' = <<>>
  /\ UNCHANGED <<store, expireTimeouts, renewPromise, renewals, now, autoRenew>>

NextClock ==
  \/ \E t \in ProbeTokens : HasExpiredCall(t) /\ UNCHANGED <<asmVars, soVars, brVars>>
  \/ Tick /\ UNCHANGED <<asmVars, soVars, brVars>>

InitClockSpec == InitTM /\ InitASM /\ isAuthenticatedOpt = FALSE /\ InitNoSignOut /\ InitBrowser

SpecClock == InitClockSpec /\ [][NextClock]_vars

----------------------------------------------------------------------------
(* The Auth State Manager over the Token Manager: it is subscribed to the  *)
(* removed event, so remove(key) runs updateAuthState after the store write *)

NextASM ==
  \/ UpdateCall /\ UNCHANGED <<soVars, brVars>>
  \/ \E p \in 1..MaxInFlight : TokensResolve(p) /\ UNCHANGED <<soVars, brVars>>
  \/ \E p \in 1..MaxInFlight, b \in BOOLEAN :
       PredicateResolve(p, b) /\ UNCHANGED <<soVars, brVars>>
  \/ \E k \in Keys : Add(k, TokenOf(k)) /\ UNCHANGED <<asmVars, soVars, brVars>>
  \/ \E k \in Keys : Remove(k) /\ UpdateAuthState([store EXCEPT ![k] = NoToken])
                       /\ UNCHANGED <<soVars, brVars>>
  \/ Tick /\ UNCHANGED <<asmVars, soVars, brVars>>

\* DEFAULT_OPTIONS.autoRenew; with or without a configured isAuthenticated
InitASMSpec == InitTM /\ autoRenew = TRUE /\ InitASM /\ InitNoSignOut /\ InitBrowser

SpecASM == InitASMSpec /\ [][NextASM]_vars

----------------------------------------------------------------------------
(* The same, with the application reading the snapshot at any time          *)

NextSnapshot ==
  \/ NextASM
  \/ GetAuthStateCall /\ UNCHANGED <<soVars, brVars>>

SpecSnapshot == InitASMSpec /\ [][NextSnapshot]_vars

----------------------------------------------------------------------------
(* The Token Manager on its own: the subscribers of sdk.emitter are its own *)
(* expired handler                                                         *)

NextTM ==
  \/ \E k \in Keys, t \in Tokens : Add(k, t) /\ UNCHANGED <<asmVars, soVars, brVars>>
  \/ \E k \in Keys : Remove(k) /\ UNCHANGED <<asmVars, soVars, brVars>>
  \/ Clear /\ UNCHANGED <<asmVars, soVars, brVars>>
  \/ \E k \in Keys : Renew(k) /\ UNCHANGED <<asmVars, soVars, brVars>>
  \/ \E i \in RenewalIds, t \in Tokens : RenewThen(i, t) /\ UNCHANGED <<asmVars, soVars, brVars>>
  \/ \E i \in RenewalIds, e \in ErrNames : RenewCatch(i, e) /\ UNCHANGED <<asmVars, soVars, brVars>>
  \/ \E i \in RenewalIds : RenewFinally(i) /\ UNCHANGED <<asmVars, soVars, brVars>>
  \/ Tick /\ UNCHANGED <<asmVars, soVars, brVars>>
  \/ \E k \in Keys : TimerFire(k) /\ UNCHANGED <<asmVars, soVars, brVars>>

InitTMSpec == InitTM /\ InitASM /\ isAuthenticatedOpt = FALSE /\ InitNoSignOut /\ InitBrowser

SpecTM == InitTMSpec /\ [][NextTM]_vars

----------------------------------------------------------------------------
(* Properties of renew() *)

\* the provider exchange of renewal i has not come back and nothing but
\* renew() touched its key since renew() started it
Outstanding(i) ==
  /\ renewals[i] # NoRenewal
  /\ renewals[i].stage = "pending"
  /\ renewals[i].undisturbed

\* C1: while the first renew(k) is outstanding and no other Token Manager
\* operation came in between, the renewal cache still holds its promise, every
\* renew(k) call returns that promise, and it is the only provider exchange for
\* k started since (the provider is contacted once, all callers share one
\* outcome).
C1_SharedRenewal ==
  \A i \in RenewalIds :
    Outstanding(i) =>
      /\ renewPromise[renewals[i].key] = i
      /\ \A j \in RenewalIds \ {i} :
           ~(renewals[j] # NoRenewal /\ renewals[j].key = renewals[i].key
             /\ renewals[j].undisturbed)
      /\ (last.op = "renew" /\ last.key = renewals[i].key) =>
           /\ last.id = i
           /\ last.ret \in {"started", "existing"}

\* a second renew(k) got the promise of the outstanding first one
C1_Witness ==
  /\ last.op = "renew"
  /\ last.ret = "existing"
  /\ Outstanding(last.id)
  /\ renewals[last.id].key = last.key

\* C2: when the provider exchange of a renewal succeeds and its key is no
\* longer stored, the fresh token is discarded: the key stays absent, no
\* expiration timer is scheduled for it and no renewed event is emitted.
C2_RemovedNotResurrected ==
  [][\A i \in RenewalIds, t \in Tokens :
       (RenewThen(i, t) /\ store[renewals[i].key] = NoToken) =>
         /\ store'[renewals[i].key] = NoToken
         /\ expireTimeouts'[renewals[i].key] = NoTimer
         /\ \A n \in 1..Len(emitted') : emitted'[n].name # "renewed"
         /\ renewals'[i].outcome = Resolved(Undefined)]_vars

\* a renewal came back with a fresh token after its key had been removed
C2_Witness ==
  /\ last.op = "renewThen"
  /\ last.ret = "discarded"
  /\ store[last.key] = NoToken
  /\ renewals[last.id].outcome = Resolved(Undefined)

\* C3: in every state in which key k has no stored token, renew(k) rejects
\* with the "no token for the key" error, contacts no provider and leaves the
\* store unchanged.
C3_AbsentKeyRejects ==
  [][\A k \in Keys :
       (Renew(k) /\ store[k] = NoToken) =>
         /\ last'.ret = "absent"
         /\ renewals' = renewals
         /\ store' = store]_vars

\* C4: when the provider exchange fails with an OAuthError or AuthSdkError,
\* the key is removed from the store, removed(k) and then an error event with
\* tokenKey = k and accessToken = (the renewed token was an access token) are
\* emitted, and the renewal rejects with that error.
C4_RejectedTokenRemoved ==
  [][\A i \in RenewalIds, e \in {"OAuthError", "AuthSdkError"} :
       RenewCatch(i, e) =>
         /\ store'[renewals[i].key] = NoToken
         /\ expireTimeouts'[renewals[i].key] = NoTimer
         /\ emitted' = <<EvRemoved(renewals[i].key),
                         EvError(e, renewals[i].key, renewals[i].token = AccessToken)>>
         /\ renewals'[i].outcome = Rejected(e)]_vars

\* a renewal of a stored access token was rejected with an AuthSdkError
C4_Witness ==
  /\ last.op = "renewCatch"
  /\ renewals[last.id].outcome = Rejected("AuthSdkError")
  /\ renewals[last.id].token = AccessToken
  /\ Len(emitted) = 2
  /\ emitted[2].name = "error"
  /\ emitted[2].accessToken

\* C5: when the provider exchange fails with any other error, the failure has
\* no side effect: the store, the expiration timer of k and the emitted events
\* are as if renew(k) had not been called (stated for a renewal that nothing
\* else interfered with, whose renew() call cancelled a live timer).
C5_OtherFailureNoSideEffect ==
  [][\A i \in RenewalIds, e \in ErrNames :
       (RenewCatch(i, e) /\ ~RemovesToken(e) /\ renewals[i].undisturbed) =>
         /\ store' = store
         /\ store'[renewals[i].key] = renewals[i].token
         /\ emitted' = <<>>
         /\ renewals[i].cancelled =>
              /\ expireTimeouts'[renewals[i].key] # NoTimer
              /\ ~expireTimeouts'[renewals[i].key].fired]_vars

\* the timer of key k can still emit expired
LiveTimer(k) == expireTimeouts[k] # NoTimer /\ ~expireTimeouts[k].fired

\* C17: clear() leaves every key without a token and without a timer, and
\* while a key has no token (get(k) resolves to undefined) it has no live
\* timer, no expired event is emitted for it, and only an add(k, ...) call
\* stores a token under it again, whatever renewals are in flight.
C17_ClearedStaysCleared ==
  [][/\ last'.op = "clear" =>
          \A k \in Keys : get(k)' = NoToken /\ expireTimeouts'[k] = NoTimer
     /\ \A k \in Keys :
          get(k) = NoToken =>
            /\ ~LiveTimer(k)
            /\ \A n \in 1..Len(emitted') :
                 ~(emitted'[n].name = "expired" /\ emitted'[n].key = k)
            /\ get(k)' # NoToken => (last'.op = "add" /\ last'.key = k)]_vars

\* clear() was called while the provider exchange of a renewal was in flight
C17_Witness ==
  /\ last.op = "clear"
  /\ \A k \in Keys : store[k] = NoToken
  /\ \E i \in RenewalIds : renewals[i] # NoRenewal /\ renewals[i].stage = "pending"

\* C21: remove(k) leaves k without a token and without a timer and emits
\* removed(k) alone; when k had no token it changes neither the store, nor the
\* timers of the other keys, nor the renewal cache.
C21_RemoveAbsentIsNoOp ==
  [][\A k \in Keys :
       Remove(k) =>
         /\ get(k)' = NoToken
         /\ expireTimeouts'[k] = NoTimer
         /\ emitted' = <<EvRemoved(k)>>
         /\ get(k) = NoToken =>
              /\ store' = store
              /\ \A j \in Keys \ {k} : expireTimeouts'[j] = expireTimeouts[j]
              /\ renewPromise' = renewPromise]_vars

EvAdded(key, token) == [name |-> "added", key |-> key, token |-> token]

\* C18: every add(key, token) emits exactly one event, added(key, token),
\* with the token stored and the expiration timer of the key scheduled.
C18_AddEmitsAdded ==
  [][\A k \in Keys, t \in Tokens :
       Add(k, t) =>
         /\ emitted' = <<EvAdded(k, t)>>
         /\ store'[k] = t
         /\ expireTimeouts'[k] = NewTimer(t)]_vars

----------------------------------------------------------------------------
(* The Auth State Manager under an event storm: updateAuthState calls and  *)
(* the reactions of the recomputations; every token read and every          *)
(* isAuthenticated promise eventually resolves                              *)

NextStorm ==
  \/ UpdateCall /\ UNCHANGED <<soVars, brVars>>
  \/ \E p \in 1..MaxInFlight : TokensResolve(p) /\ UNCHANGED <<soVars, brVars>>
  \/ \E p \in 1..MaxInFlight, b \in BOOLEAN :
       PredicateResolve(p, b) /\ UNCHANGED <<soVars, brVars>>

FairStorm ==
  \A p \in 1..MaxInFlight :
    /\ WF_vars(TokensResolve(p) /\ UNCHANGED <<soVars, brVars>>)
    /\ WF_vars(\E b \in BOOLEAN : PredicateResolve(p, b) /\ UNCHANGED <<soVars, brVars>>)

LiveSpecASM == InitASMSpec /\ [][NextStorm]_vars /\ FairStorm

----------------------------------------------------------------------------
(* Renewals that the provider rejects, with the Auth State Manager          *)
(* subscribed to the Token Manager: the SDK was constructed over a storage  *)
(* holding an id token and an access token                                  *)

\* the listeners the Auth State Manager registers in its constructor run
\* updateAuthState in the turn that emits added, renewed or removed
Listeners ==
  IF \E n \in 1..Len(emitted') : emitted'[n].name \in {"added", "renewed", "removed"}
  THEN UpdateAuthState(store')
  ELSE UNCHANGED asmVars

\* after new OktaAuth(...) over the persisted tokens
InitRestored ==
  /\ store = [k \in Keys |-> TokenOf(k)]
  /\ expireTimeouts = TimersOfStorage(store)
  /\ renewPromise = [k \in Keys |-> NoPromise]
  /\ renewals = [i \in RenewalIds |-> NoRenewal]
  /\ now = 0
  /\ autoRenew = TRUE
  /\ emitted = <<>>
  /\ last = Last("constructor", NoKey, 0, "constructed",
                 Resolved(TimeoutWaits(store, now)))

NextRejected ==
  \/ \E k \in Keys : Renew(k) /\ Listeners /\ UNCHANGED <<soVars, brVars>>
  \/ \E i \in RenewalIds, e \in ErrNames :
       RenewCatch(i, e) /\ Listeners /\ UNCHANGED <<soVars, brVars>>
  \/ \E i \in RenewalIds : RenewFinally(i) /\ Listeners /\ UNCHANGED <<soVars, brVars>>
  \/ NextStorm

\* the default rule for isAuthenticated
InitRenewSpec ==
  InitRestored /\ InitASM /\ isAuthenticatedOpt = FALSE /\ InitNoSignOut /\ InitBrowser

LiveSpecRenew == InitRenewSpec /\ [][NextRejected]_vars /\ FairStorm

----------------------------------------------------------------------------
(* Tokens added and cleared, with the Auth State Manager subscribed to the  *)
(* Token Manager and the application calling updateAuthState                *)

NextCleared ==
  \/ \E k \in Keys : Add(k, TokenOf(k)) /\ Listeners /\ UNCHANGED <<soVars, brVars>>
  \/ Clear /\ Listeners /\ UNCHANGED <<soVars, brVars>>
  \/ NextStorm

\* the default rule for isAuthenticated
InitClearedSpec ==
  InitTM /\ autoRenew = TRUE /\ InitASM /\ isAuthenticatedOpt = FALSE
    /\ InitNoSignOut /\ InitBrowser

SpecCleared == InitClearedSpec /\ [][NextCleared]_vars

----------------------------------------------------------------------------
(* Recomputations that fail: the promise of _getTokens() or the promise of  *)
(* options.isAuthenticated rejects. Neither then() has a rejection handler   *)
(* and the executor never calls reject, so the cancelable promise stays      *)
(* pending, in this._pending, until a later call cancels it                  *)

\* _getTokens() of the promise at position p rejects
TokensReject(p) ==
  /\ p \in 1..Len(comps)
  /\ comps[p].stage = "tokens"
  /\ IF comps[p].isCanceled
     THEN /\ comps' = RemoveAt(comps, p)
          /\ pending' = ShiftPending(pending, p)
     ELSE /\ comps' = [comps EXCEPT ![p].stage = "failed"]
          /\ pending' = pending
  /\ emitted' = <<>>
  /\ last' = Last("tokensReject", NoKey, p, "failed", NoOutcome)
  /\ UNCHANGED <<authState, isAuthenticatedOpt, hist>>
  /\ UNCHANGED <<store, expireTimeouts, renewPromise, renewals, now, autoRenew>>

\* the promise options.isAuthenticated(sdk) returned to the promise at
\* position p rejects
PredicateReject(p) ==
  /\ p \in 1..Len(comps)
  /\ comps[p].stage = "predicate"
  /\ isAuthenticatedOpt
  /\ IF comps[p].isCanceled
     THEN /\ comps' = RemoveAt(comps, p)
          /\ pending' = ShiftPending(pending, p)
     ELSE /\ comps' = [comps EXCEPT ![p].stage = "failed"]
          /\ pending' = pending
  /\ emitted' = <<>>
  /\ last' = Last("predicateReject", NoKey, p, "failed", NoOutcome)
  /\ UNCHANGED <<authState, isAuthenticatedOpt, hist>>
  /\ UNCHANGED <<store, expireTimeouts, renewPromise, renewals, now, autoRenew>>

\* a failed promise that a later call canceled is not heard of again
Abandon(p) ==
  /\ p \in 1..Len(comps)
  /\ comps[p].stage = "failed"
  /\ comps[p].isCanceled
  /\ comps' = RemoveAt(comps, p)
  /\ pending' = ShiftPending(pending, p)
  /\ emitted' = <<>>
  /\ last' = Last("abandon", NoKey, p, "none", NoOutcome)
  /\ UNCHANGED <<authState, isAuthenticatedOpt, hist>>
  /\ UNCHANGED <<store, expireTimeouts, renewPromise, renewals, now, autoRenew>>

NextFailing ==
  \/ NextStorm
  \/ \E p \in 1..MaxInFlight : TokensReject(p) /\ UNCHANGED <<soVars, brVars>>
  \/ \E p \in 1..MaxInFlight : PredicateReject(p) /\ UNCHANGED <<soVars, brVars>>
  \/ \E p \in 1..MaxInFlight : Abandon(p) /\ UNCHANGED <<soVars, brVars>>

SpecFailing == InitASMSpec /\ [][NextFailing]_vars

----------------------------------------------------------------------------
(* Properties of updateAuthState *)

\* the last turn emitted authStateChange
Emits == Len(emitted') = 1 /\ emitted'[1].name = "authStateChange"

\* the snapshot carries the tokens `req` read from the storage, a token that
\* has expired being replaced by null
Reflects(snapshot, req) ==
  /\ \/ snapshot.idToken = req.idToken
     \/ snapshot.idToken = Null /\ req.idToken \in Tokens /\ hasExpired(req.idToken)
  /\ \/ snapshot.accessToken = req.accessToken
     \/ snapshot.accessToken = Null /\ req.accessToken \in Tokens
        /\ hasExpired(req.accessToken)

\* C6: of the recomputations started by a burst of updateAuthState calls only
\* the one the last started call created emits, once, and (no call having been
\* dropped) with the tokens that call read; at the ceiling of 10 cancellations
\* a call is dropped: it changes nothing and the recomputation in flight stays
\* un-canceled, finishes and emits.
C6_BurstEmitsOnce ==
  [][/\ Emits =>
          /\ hist'.emits = 1
          /\ last'.id = Len(comps)
          /\ pending.updateAuthStatePromise = last'.id
          /\ ~hist.dropped => Reflects(emitted'[1].authState, hist.req)
     /\ (UpdateCall /\ ShouldDrop) =>
          /\ UNCHANGED <<authState, pending, comps>>
          /\ pending.canceledTimes = MAX_PROMISE_CANCEL_TIMES
          /\ ~comps[pending.updateAuthStatePromise].isCanceled
     /\ (UpdateCall /\ pending.updateAuthStatePromise # 0
         /\ pending.canceledTimes < MAX_PROMISE_CANCEL_TIMES) =>
          /\ comps'[pending.updateAuthStatePromise].isCanceled
          /\ pending'.updateAuthStatePromise = Len(comps')]_vars

\* the last call of a burst emitted while a recomputation it superseded was
\* still running
C6_Witness ==
  /\ last.ret = "emitted"
  /\ hist.emits = 1
  /\ ~hist.dropped
  /\ Len(comps) = 1
  /\ comps[1].isCanceled

\* C7: a canceled recomputation resolves quietly: it neither replaces the Auth
\* State nor emits; and a recomputation that emits is neither canceled nor
\* overtaken by one triggered after it (snapshots come in trigger order).
C7_CanceledHasNoEffect ==
  [][/\ \A p \in 1..Len(comps) :
          (comps[p].isCanceled
           /\ (TokensResolve(p) \/ \E b \in BOOLEAN : PredicateResolve(p, b))) =>
            /\ authState' = authState
            /\ emitted' = <<>>
            /\ last'.ret = "canceled"
            /\ pending'.canceledTimes = pending.canceledTimes
     /\ Emits =>
          /\ ~comps[last'.id].isCanceled
          /\ ~comps[last'.id].superseded]_vars

\* a canceled recomputation is still waiting for its predicate after a
\* recomputation triggered later has emitted
C7_Witness ==
  \E p \in 1..Len(comps) :
    /\ comps[p].superseded
    /\ comps[p].isCanceled
    /\ comps[p].stage = "predicate"

\* no recomputation is in flight and one has emitted
Settled == Len(comps) = 0 /\ ~authState.isPending

\* C8: whenever all recomputations have settled, the Auth State reflects the
\* tokens as of the most recent updateAuthState call, for any number of calls.
C8_ReflectsMostRecent == Settled => Reflects(authState, hist.req)

\* what does hold: the settled Auth State reflects the most recent call unless
\* a call was dropped at the ceiling since the last one that started a
\* recomputation
ReflectsUnlessDropped ==
  (Settled /\ ~hist.dropped) => Reflects(authState, hist.req)

\* C9: whatever the stream of updateAuthState calls, a pending recomputation
\* leads to an authStateChange.
C9_EventuallyEmits ==
  (pending.updateAuthStatePromise # 0) ~> (last.ret = "emitted")

\* an authStateChange after the ceiling of cancellations dropped a call
C9_Witness ==
  /\ last.ret = "emitted"
  /\ hist.dropped
  /\ pending = DEFAULT_PENDING

\* the token fields of a snapshot
TokenFields == {"idToken", "accessToken"}

\* C24: a recomputation replaces by null every token it read from the storage
\* that hasExpired reports expired (and passes the others on as read), the
\* snapshot it emits carries the tokens so computed, and neither of its steps
\* writes the token store.
C24_ExpiredTokensNulled ==
  [][\A p \in 1..Len(comps) :
       /\ (TokensResolve(p) /\ ~comps[p].isCanceled) =>
            /\ \A f \in TokenFields :
                 comps'[p][f] =
                   IF comps[p][f] \in Tokens
                      /\ comps[p][f].expiresAt - ExpireEarlySeconds <= now
                   THEN Null ELSE comps[p][f]
            /\ store' = store
       /\ \A b \in BOOLEAN :
            (PredicateResolve(p, b) /\ ~comps[p].isCanceled) =>
              /\ Emits
              /\ \A f \in TokenFields : emitted'[1].authState[f] = comps[p][f]
              /\ authState' = emitted'[1].authState
              /\ store' = store]_vars

\* the snapshot holds null for the id token, which has expired and is still
\* in the storage
C24_Witness ==
  /\ last.ret = "emitted"
  /\ authState.idToken = Null
  /\ hist.req.idToken = IdToken
  /\ store[ID_TOKEN_STORAGE_KEY] = IdToken
  /\ authState.accessToken = AccessToken

\* C25: without a configured isAuthenticated the emitted snapshot has
\* isAuthenticated = true exactly when it carries both an access token and an
\* id token (present and not replaced by null); with one, isAuthenticated is
\* the value its promise resolved with.
C25_IsAuthenticatedRule ==
  [][\A p \in 1..Len(comps), b \in BOOLEAN :
       (PredicateResolve(p, b) /\ ~comps[p].isCanceled) =>
         LET snapshot == emitted'[1].authState
         IN /\ Emits
            /\ ~isAuthenticatedOpt =>
                 (snapshot.isAuthenticated = TRUE
                    <=> (snapshot.accessToken \in Tokens /\ snapshot.idToken \in Tokens))
            /\ isAuthenticatedOpt => snapshot.isAuthenticated = b]_vars

\* by the default rule a snapshot with an access token and without an id
\* token is not authenticated
C25_Witness ==
  /\ ~isAuthenticatedOpt
  /\ last.ret = "emitted"
  /\ authState.accessToken = AccessToken
  /\ authState.idToken \notin Tokens
  /\ ~authState.isAuthenticated

\* C29: getAuthState() returns the current snapshot and starts, cancels and
\* emits nothing; the snapshot is DEFAULT_AUTH_STATE as long as it is pending,
\* it changes only in the step in which a recomputation that was not canceled
\* settles and emits, and from then on isPending is false.
C29_SnapshotLifecycle ==
  [][/\ GetAuthStateCall =>
          /\ last'.outcome = Resolved(authState)
          /\ UNCHANGED <<authState, pending, comps>>
          /\ emitted' = <<>>
     /\ authState.isPending => authState = DEFAULT_AUTH_STATE
     /\ authState' # authState =>
          /\ Emits
          /\ authState' = emitted'[1].authState
          /\ \E p \in 1..Len(comps), b \in BOOLEAN :
               PredicateResolve(p, b) /\ ~comps[p].isCanceled
     /\ Emits => ~authState'.isPending
     /\ ~authState.isPending => ~authState'.isPending]_vars

\* getAuthState() returned a snapshot that is no longer pending while a
\* recomputation, started by an earlier call, is in flight
C29_Witness ==
  /\ last.op = "getAuthState"
  /\ last.outcome = Resolved(authState)
  /\ ~authState.isPending
  /\ authState.accessToken = AccessToken
  /\ Len(comps) = 1
  /\ pending.updateAuthStatePromise = 1

\* the field of the snapshot that holds the token stored under `key`
FieldOf(key) == IF key = ID_TOKEN_STORAGE_KEY THEN "idToken" ELSE "accessToken"

\* C30: once the renewal of the id token or of the access token has failed
\* with an OAuthError or an AuthSdkError, an authStateChange is eventually
\* emitted whose snapshot has no such token and, by the default rule,
\* isAuthenticated = false.
C30_FailedRenewReflected ==
  \A k \in Keys :
    (last.op = "renewCatch" /\ last.key = k /\ last.ret = "removed")
      ~> (/\ last.ret = "emitted"
          /\ authState[FieldOf(k)] \notin Tokens
          /\ ~isAuthenticatedOpt => ~authState.isAuthenticated)

----------------------------------------------------------------------------
(* Properties of signOut *)

\* the positions of the navigation calls (assign or reload) in the calls of
\* the signOut execution
Navigations == {i \in DOMAIN so.calls : so.calls[i].call \in {"assign", "reload"}}

\* the positions of the steps that failed: a token read or a revocation that
\* rejected, or a closeSession that rejected (session.close rejecting with
\* anything but the "resource not found" AuthApiError)
FailedSteps ==
  {i \in DOMAIN so.calls :
     /\ so.calls[i].outcome.type = "rejected"
     /\ ~(so.calls[i].call = "sessionClose" /\ so.calls[i].outcome.err = NotFoundError)}

\* C10: in every signOut execution there is at most one navigation call
\* (assign or reload), it is the last call made and signOut resolved with it;
\* after a failed token read, revocation or closeSession there is no navigation
\* call and signOut has rejected with the error of that step.
C10_NavigatesLastOrNever ==
  /\ Cardinality(Navigations) <= 1
  /\ \A i \in Navigations : i = Len(so.calls) /\ so.pc = "resolved"
  /\ \A i \in FailedSteps :
       /\ Navigations = {}
       /\ so.pc = "rejected"
       /\ so.error = so.calls[i].outcome.err
       /\ i = Len(so.calls)

\* signOut rejected after the revocation went through and closeSession failed
C10_Witness ==
  /\ so.pc = "rejected"
  /\ so.error = ApiError
  /\ so.calls[Len(so.calls)].call = "sessionClose"
  /\ \E i \in DOMAIN so.calls :
       so.calls[i].call = "revoke" /\ so.calls[i].outcome.type = "resolved"

\* the positions of the provider network calls (token.revoke, session.close)
NetworkCalls(calls) ==
  {i \in DOMAIN calls : calls[i].call \in {"revoke", "sessionClose"}}

\* the turn made a provider network call and now waits for it
MakesNetworkCall ==
  /\ so' # so
  /\ so'.pc \in {"awaitRevoke", "awaitClose"}

\* C11: when signOut makes a provider network call (revoke or session close),
\* tokenManager.clear() was called earlier in the execution and the token
\* store and the timer table are empty at the call; this stays so in the log
\* of the execution whether the call resolves or rejects.
C11_ClearedBeforeNetwork ==
  [][/\ MakesNetworkCall =>
          /\ store' = [k \in Keys |-> NoToken]
          /\ expireTimeouts' = [k \in Keys |-> NoTimer]
     /\ \A i \in NetworkCalls(so'.calls) :
          \E j \in 1..(i - 1) : so'.calls[j].call = "clear"]_vars

\* a stored access token was read, the store was cleared, and the revocation
\* then failed
C11_Witness ==
  /\ so.pc = "rejected"
  /\ so.calls[Len(so.calls)].call = "revoke"
  /\ so.calls[Len(so.calls)].token = AccessToken
  /\ \E i \in DOMAIN so.calls :
       so.calls[i].call = "get" /\ so.calls[i].read = AccessToken
  /\ store = [k \in Keys |-> NoToken]

\* the percent-encoded form of the strings signOut can be given, written out
PercentEncoded(str) ==
  CASE str = <<"h", ":", "/", "/", "a">> ->
         <<"h", "%", "3", "A", "%", "2", "F", "%", "2", "F", "a">>
    [] str = <<"h", ":", "/", "/", "a", "/", "r">> ->
         <<"h", "%", "3", "A", "%", "2", "F", "%", "2", "F", "a", "%", "2", "F", "r">>
    [] str = <<"h", ":", "/", "/", "c">> ->
         <<"h", "%", "3", "A", "%", "2", "F", "%", "2", "F", "c">>
    [] str = <<"h", ":", "/", "/", "o", "?", "x", "=", "1">> ->
         <<"h", "%", "3", "A", "%", "2", "F", "%", "2", "F", "o",
           "%", "3", "F", "x", "%", "3", "D", "1">>
    [] str = <<"a", "=", "b", " ", "&", "%">> ->
         <<"a", "%", "3", "D", "b", "%", "2", "0", "%", "2", "6", "%", "2", "5">>
    [] str = <<"j", ".", "w", ".", "t">> -> <<"j", ".", "w", ".", "t">>

\* the redirect URI the options ask for: the explicit option, else the
\* configured default, else the page origin
ExpectedRedirectUri ==
  IF so.opts.postLogoutRedirectUri # <<>> THEN so.opts.postLogoutRedirectUri
  ELSE IF configUri # <<>> THEN configUri
  ELSE <<"h", ":", "/", "/", "a">>

\* <logoutEndpoint>?id_token_hint=<jwt>&post_logout_redirect_uri=<uri>[&state=<state>]
ExpectedLogoutRedirect ==
  <<"h", ":", "/", "/", "i", "/", "l", "o", "g", "o", "u", "t",
    "?", "i", "d", "_", "t", "o", "k", "e", "n", "_", "h", "i", "n", "t", "=">>
    \o PercentEncoded(<<"j", ".", "w", ".", "t">>)
    \o <<"&", "p", "o", "s", "t", "_", "l", "o", "g", "o", "u", "t", "_",
         "r", "e", "d", "i", "r", "e", "c", "t", "_", "u", "r", "i", "=">>
    \o PercentEncoded(ExpectedRedirectUri)
    \o (IF so.opts.state = <<>> THEN <<>>
        ELSE <<"&", "s", "t", "a", "t", "e", "=">> \o PercentEncoded(so.opts.state))

\* an ID token was given to signOut or read from the store
IdTokenAvailable ==
  /\ so.pc \notin {"idle", "awaitIdToken"}
  /\ so.idToken = IdToken

\* C12: with an ID token available, signOut never calls closeSession, and
\* when it has resolved it made exactly one navigation call: an assign to the
\* provider logout URL with the encoded id_token_hint, the encoded redirect
\* URI (explicit option, else configured default, else page origin) and, when
\* given, the encoded state.
C12_RedirectsToLogoutUrl ==
  IdTokenAvailable =>
    /\ \A i \in DOMAIN so.calls : so.calls[i].call # "sessionClose"
    /\ so.pc \in {"awaitAccessToken", "awaitRevoke", "resolved", "rejected"}
    /\ so.pc = "rejected" => FailedSteps # {}
    /\ so.pc = "resolved" =>
         /\ Cardinality(Navigations) = 1
         /\ so.calls[Len(so.calls)] = CallAssign(ExpectedLogoutRedirect)

\* signOut redirected with a stored ID token, the configured redirect URI, a
\* state, after a revocation
C12_Witness ==
  /\ so.pc = "resolved"
  /\ so.opts.idToken = Undefined
  /\ so.idToken = IdToken
  /\ so.opts.postLogoutRedirectUri = <<>>
  /\ configUri # <<>>
  /\ so.opts.state # <<>>
  /\ \E i \in DOMAIN so.calls : so.calls[i].call = "revoke"
  /\ so.calls[Len(so.calls)].call = "assign"

\* signOut was told not to use an ID token (options.idToken === false) or
\* found none in the store
NoIdTokenAvailable ==
  /\ so.pc \notin {"idle", "awaitIdToken"}
  /\ so.idToken \in {False, NoToken}

\* the positions of the session.close calls that closeSession reports as a
\* success
ClosedSessions ==
  {i \in DOMAIN so.calls :
     /\ so.calls[i].call = "sessionClose"
     /\ so.calls[i].outcome \in {Resolved(Undefined), Rejected(NotFoundError)}}

\* C13: without an ID token, signOut navigates only after a closeSession that
\* succeeded, makes exactly one navigation call when it has resolved (a
\* reload when the resolved post-logout redirect URI is the current page URL,
\* else an assign to that URI), and never assigns the provider logout URL.
C13_ClosesSessionThenNavigates ==
  NoIdTokenAvailable =>
    /\ \A i \in Navigations :
         /\ \E j \in ClosedSessions : j < i
         /\ so.calls[i] = IF ExpectedRedirectUri = href
                          THEN CallReload
                          ELSE CallAssign(ExpectedRedirectUri)
    /\ so.pc = "resolved" => Cardinality(Navigations) = 1
    /\ so.pc = "closed" => ClosedSessions # {}
    /\ so.pc = "rejected" => FailedSteps # {}

\* signOut({ idToken: false }) reloaded the page after the revocation and a
\* session close that found no session
C13_Witness ==
  /\ so.pc = "resolved"
  /\ so.opts.idToken = False
  /\ so.calls[Len(so.calls)] = CallReload
  /\ \E i \in DOMAIN so.calls :
       so.calls[i].call = "revoke" /\ so.calls[i].outcome.type = "resolved"
  /\ \E i \in DOMAIN so.calls :
       so.calls[i].call = "sessionClose" /\ so.calls[i].outcome = Rejected(NotFoundError)

\* the positions of the token.revoke calls and of the reads of the stored
\* access token
Revocations == {i \in DOMAIN so.calls : so.calls[i].call = "revoke"}
AccessTokenReads ==
  {i \in DOMAIN so.calls :
     so.calls[i].call = "get" /\ so.calls[i].key = ACCESS_TOKEN_STORAGE_KEY}

\* signOut is past the point where it decides about the revocation (the
\* first tokenManager.clear())
PastRevokeDecision == \E i \in DOMAIN so.calls : so.calls[i].call = "clear"

\* C14: signOut calls token.revoke at most once; it does so exactly when
\* options.revokeAccessToken is not false and the resolved access token is
\* truthy, with that token: options.accessToken when it is given (the store is
\* then not read), else the stored access token as read; with
\* revokeAccessToken === false or accessToken === false there is neither a
\* read of the stored access token nor a revocation.
C14_RevokesResolvedToken ==
  /\ Cardinality(Revocations) <= 1
  /\ Cardinality(AccessTokenReads) <= 1
  /\ (so.opts.revokeAccessToken = False \/ so.opts.accessToken # Undefined)
       => AccessTokenReads = {}
  /\ (so.opts.revokeAccessToken = False \/ so.opts.accessToken = False)
       => Revocations = {}
  /\ \A i \in Revocations :
       /\ so.opts.accessToken # Undefined => so.calls[i].token = so.opts.accessToken
       /\ so.opts.accessToken = Undefined =>
            \E j \in AccessTokenReads :
              j < i /\ so.calls[j].outcome = Resolved(so.calls[i].token)
  /\ PastRevokeDecision =>
       (Revocations # {} <=>
          /\ so.opts.revokeAccessToken # False
          /\ \/ so.opts.accessToken = AccessToken
             \/ /\ so.opts.accessToken = Undefined
                /\ \E j \in AccessTokenReads :
                     so.calls[j].outcome = Resolved(AccessToken))

\* signOut({ idToken: false }) read the stored access token and revoked it
C14_Witness ==
  /\ so.opts.accessToken = Undefined
  /\ so.opts.idToken = False
  /\ \E i \in Revocations : so.calls[i].token = AccessToken
  /\ \E j \in AccessTokenReads : so.calls[j].read = AccessToken

----------------------------------------------------------------------------
(* Properties of closeSession and revokeAccessToken *)

\* the turn is a call of closeSession()
CloseSessionCalled ==
  /\ api' # api
  /\ api'.op = "closeSession"
  /\ api'.pc = "awaitClose"

\* the turn settles closeSession()
CloseSessionSettled ==
  /\ api.op = "closeSession"
  /\ api.pc = "awaitClose"
  /\ api' # api

\* C15: closeSession() clears the token store and the timers and then calls
\* session.close(); when that resolves, or rejects with error code E0000007,
\* closeSession resolves; when it rejects with any other error, closeSession
\* rejects with that error; the settling writes no token.
C15_CloseSessionAbsorbsNotFound ==
  [][/\ CloseSessionCalled =>
          /\ api'.calls = <<CallClear, CallSessionClose>>
          /\ store' = [k \in Keys |-> NoToken]
          /\ expireTimeouts' = [k \in Keys |-> NoTimer]
     /\ CloseSessionSettled =>
          LET o == api'.calls[2].outcome
          IN /\ store' = store
             /\ expireTimeouts' = expireTimeouts
             /\ (o.type = "resolved"
                   \/ (o.type = "rejected" /\ o.err.errorCode = "E0000007"))
                  => (api'.pc = "resolved" /\ api'.error = NoError)
             /\ (o.type = "rejected" /\ o.err.errorCode # "E0000007")
                  => (api'.pc = "rejected" /\ api'.error = o.err)]_vars

\* closeSession() resolved although session.close() found no session
C15_Witness ==
  /\ api.op = "closeSession"
  /\ api.pc = "resolved"
  /\ api.calls[2].outcome = Rejected(NotFoundError)
  /\ last.op = "closeSession"
  /\ store = [k \in Keys |-> NoToken]

\* the positions of the calls named `name` that revokeAccessToken made
ApiCalls(a, name) == {i \in DOMAIN a.calls : a.calls[i].call = name}

\* revokeAccessToken was called with a token
CalledWithToken(a) == a.op = "revokeAccessToken" /\ Truthy(a.token) /\ ApiCalls(a, "get") = {}

\* revokeAccessToken was called without a token
CalledWithoutToken(a) == a.op = "revokeAccessToken" /\ ApiCalls(a, "get") # {}

\* C16: revokeAccessToken() without a token reads the stored access token
\* and, the read done, removes the key; with nothing read it resolves without
\* calling token.revoke, else it calls token.revoke once, with the token read,
\* and settles as that call does (a rejection with its error), the key staying
\* removed. revokeAccessToken(token) calls token.revoke(token) once and
\* neither reads nor writes the store.
C16_RevokeAccessToken ==
  [][api' # api =>
       /\ (CalledWithToken(api') /\ api.pc # "awaitRevoke") =>
            /\ ApiCalls(api', "remove") = {}
            /\ api'.calls[1].call = "revoke"
            /\ api'.calls[1].token = api'.token
            /\ Len(api'.calls) = 1
            /\ store' = store
            /\ expireTimeouts' = expireTimeouts
            /\ renewPromise' = renewPromise
       /\ (CalledWithoutToken(api') /\ api.pc = "awaitGet"
             /\ api'.calls[1].outcome.type = "resolved") =>
            LET read == api'.calls[1].outcome.value
            IN /\ store'[ACCESS_TOKEN_STORAGE_KEY] = NoToken
               /\ store'[ID_TOKEN_STORAGE_KEY] = store[ID_TOKEN_STORAGE_KEY]
               /\ api'.calls[2] = CallRemove(ACCESS_TOKEN_STORAGE_KEY)
               /\ read = NoToken =>
                    (api'.pc = "resolved" /\ ApiCalls(api', "revoke") = {})
               /\ read # NoToken =>
                    /\ ApiCalls(api', "revoke") = {3}
                    /\ api'.calls[3].token = read
                    /\ Len(api'.calls) = 3
       /\ (api'.op = "revokeAccessToken" /\ api.pc = "awaitRevoke") =>
            LET o == api'.calls[Len(api'.calls)].outcome
            IN /\ o.type = "resolved" => api'.pc = "resolved"
               /\ o.type = "rejected" => (api'.pc = "rejected" /\ api'.error = o.err)
               /\ store' = store]_vars

\* revokeAccessToken() read a stored access token, removed it, and the
\* revocation failed
C16_Witness ==
  /\ api.op = "revokeAccessToken"
  /\ api.pc = "rejected"
  /\ Len(api.calls) = 3
  /\ api.calls[1].read = AccessToken
  /\ api.calls[3] = [CallRevoke(AccessToken) EXCEPT !.outcome = Rejected(ApiError)]
  /\ store[ACCESS_TOKEN_STORAGE_KEY] = NoToken

----------------------------------------------------------------------------
(* Properties of add() *)

\* a valid Token: an object with scopes, a numeric expiresAt and exactly one
\* of idToken / accessToken
ValidToken(value) ==
  /\ value.isObject
  /\ value.scopes
  /\ value.expiresAt \in {"0", "31"}
  /\ value.idToken # value.accessToken

\* C19: add(k, T) with a valid Token T leaves T stored under k, so that a
\* get(k) that follows resolves to T whatever was stored under k before, and
\* leaves every other key as it was.
C19_AddThenGet ==
  [][\A k \in Keys, v \in Values :
       (AddValue(k, v) /\ ValidToken(v)) =>
         /\ get(k)' = v
         /\ \A j \in Keys \ {k} : get(j)' = get(j)]_vars

\* a valid token with expiresAt 0 was added under idToken while accessToken
\* held a token
C19_Witness ==
  /\ last.op = "add"
  /\ last.key = ID_TOKEN_STORAGE_KEY
  /\ last.ret = "none"
  /\ store[ID_TOKEN_STORAGE_KEY] \in Values
  /\ ValidToken(store[ID_TOKEN_STORAGE_KEY])
  /\ store[ID_TOKEN_STORAGE_KEY].expiresAt = "0"
  /\ store[ACCESS_TOKEN_STORAGE_KEY] # NoToken

\* C20: add(key, value) with a value that is not a valid Token throws the
\* AuthSdkError and leaves the store, the timer table and the renewal cache
\* as they were, emitting nothing.
C20_InvalidValueRejected ==
  [][\A k \in Keys, v \in Values :
       (AddValue(k, v) /\ ~ValidToken(v)) =>
         /\ last'.ret = "throws"
         /\ store' = store
         /\ expireTimeouts' = expireTimeouts
         /\ renewPromise' = renewPromise
         /\ emitted' = <<>>]_vars

----------------------------------------------------------------------------
(* Properties of hasExpired *)

\* C23: hasExpired(token) is true exactly when token.expiresAt -
\* expireEarlySeconds <= clock.now(): true when the two are equal, false when
\* the left side is one second above now.
C23_HasExpiredBoundary ==
  [][\A t \in ProbeTokens :
       HasExpiredCall(t) =>
         /\ last'.ret = "true" <=> t.expiresAt - ExpireEarlySeconds <= now
         /\ t.expiresAt - ExpireEarlySeconds = now => last'.ret = "true"
         /\ t.expiresAt - ExpireEarlySeconds = now + 1 => last'.ret = "false"]_vars

\* hasExpired answered true at time 1 for a token whose early expiry is 1
C23_Witness ==
  /\ last.op = "hasExpired"
  /\ last.ret = "true"
  /\ now = 1
  /\ last.outcome.value.expiresAt = ExpireEarlySeconds + 1

----------------------------------------------------------------------------
(* Properties of the constructor *)

\* C26: constructing the Token Manager does not throw; over a storage whose
\* read fails it emits one error event and schedules no timer; over a
\* readable storage it emits nothing and schedules one timer per persisted
\* token, for that token, with wait max(expiresAt - expireEarlySeconds - now, 0).
C26_ConstructorSchedulesTimers ==
  [][\A readable \in BOOLEAN :
       Construct(readable) =>
         /\ last'.ret = "constructed"
         /\ store' = store
         /\ ~readable =>
              /\ Len(emitted') = 1
              /\ emitted'[1].name = "error"
              /\ \A k \in Keys : expireTimeouts'[k] = NoTimer
              /\ last'.outcome = NoOutcome
         /\ readable =>
              /\ emitted' = <<>>
              /\ \A k \in Keys :
                   IF store[k] = NoToken
                   THEN /\ expireTimeouts'[k] = NoTimer
                        /\ last'.outcome.value[k] = NoTimer
                   ELSE /\ LiveTimer(k)'
                        /\ expireTimeouts'[k].token = store[k]
                        /\ LET wait == store[k].expiresAt - ExpireEarlySeconds - now
                           IN last'.outcome.value[k] = IF wait > 0 THEN wait ELSE 0]_vars

\* the constructor ran at time 1 over two persisted tokens, one of them
\* already past its early expiry
C26_Witness ==
  /\ last.op = "constructor"
  /\ now = 1
  /\ store[ID_TOKEN_STORAGE_KEY] = StaleToken
  /\ store[ACCESS_TOKEN_STORAGE_KEY] = AccessToken
  /\ last.outcome = Resolved(TimeoutWaits(store, 1))
  /\ \A k \in Keys : LiveTimer(k)

----------------------------------------------------------------------------
(* Properties of the token API queue and of login *)

\* the operations of the asynchronous token API methods
AsyncOps ==
  {i \in 1..Len(tokenQueue.ops) :
     tokenQueue.ops[i].method \in
       {"getWithoutPrompt", "getWithPopup", "getWithRedirect", "parseFromUrl",
        "revoke", "renew", "getUserInfo", "verify"}}

Begun(i) == tokenQueue.ops[i].stage \in {"running", "resolved", "rejected"}

HasSettled(i) == tokenQueue.ops[i].stage \in {"resolved", "rejected"}

\* C27: the asynchronous token API operations of the instance run one at a
\* time in call order: an operation has begun only if every operation called
\* before it has settled, resolved or rejected, and an operation waits only
\* while another one is running.
C27_OneAtATimeInOrder ==
  /\ \A i, j \in AsyncOps : (i < j /\ Begun(j)) => HasSettled(i)
  /\ Cardinality({i \in AsyncOps : tokenQueue.ops[i].stage = "running"}) <= 1
  /\ (\E j \in AsyncOps : tokenQueue.ops[j].stage = "queued") =>
       (\E i \in AsyncOps : tokenQueue.ops[i].stage = "running")

\* the first operation was rejected, the second runs, the third waits
C27_Witness ==
  /\ Len(tokenQueue.ops) = 3
  /\ tokenQueue.ops[1].stage = "rejected"
  /\ tokenQueue.ops[2].stage = "running"
  /\ tokenQueue.ops[3].stage = "queued"
  /\ tokenQueue.ops[3].method = "renew"

\* C28: a login() call made while an earlier login() call has not settled
\* triggers neither onAuthRequired nor loginRedirect.
C28_SecondLoginSkipped ==
  [][(Login /\ \E c \in 1..Len(login.calls) : login.calls[c].stage = "awaiting") =>
       login'.calls[Len(login'.calls)].triggered = "nothing"]_vars

----------------------------------------------------------------------------
(* Properties of the renewal cache under interference *)

\* the provider exchanges for `key` that have not come back
PendingExchanges(key) ==
  {i \in RenewalIds :
     renewals[i] # NoRenewal /\ renewals[i].key = key /\ renewals[i].stage = "pending"}

\* C31: whatever add, remove, clear, renew and timer firings came before, at
\* most one provider exchange per key is outstanding, and a renew(k) made
\* while one is outstanding returns its promise and starts none.
C31_OneExchangePerKey ==
  [][\A k \in Keys :
       /\ Cardinality(PendingExchanges(k)) <= 1
       /\ (Renew(k) /\ PendingExchanges(k) # {}) =>
            /\ last'.ret = "existing"
            /\ last'.id \in PendingExchanges(k)
            /\ renewals' = renewals]_vars

----------------------------------------------------------------------------
(* Properties of the cancellation counter *)

\* the recomputations in flight that were not canceled
NotCanceled == {p \in 1..Len(comps) : ~comps[p].isCanceled}

\* C32: the cancellation counter stays between 0 and the ceiling of 10, at
\* most one recomputation that was not canceled is in flight (the one in the
\* pending slot), and an updateAuthState call made with the counter at the
\* ceiling and a recomputation in flight leaves the snapshot, the slot, the
\* counter and the recomputations as they are.
C32_CounterBounded ==
  [][/\ pending.canceledTimes \in 0..MAX_PROMISE_CANCEL_TIMES
     /\ Cardinality(NotCanceled) <= 1
     /\ \A p \in NotCanceled : pending.updateAuthStatePromise = p
     /\ (UpdateCall /\ pending.canceledTimes = MAX_PROMISE_CANCEL_TIMES
         /\ pending.updateAuthStatePromise # 0) =>
          /\ authState' = authState
          /\ pending' = pending
          /\ comps' = comps
          /\ emitted' = <<>>
          /\ last'.ret = "dropped"]_vars

\* a call was dropped at the ceiling and its recomputation is still in flight
C32_Witness ==
  /\ last.op = "updateAuthState"
  /\ last.ret = "dropped"
  /\ pending.canceledTimes = MAX_PROMISE_CANCEL_TIMES
  /\ NotCanceled = {pending.updateAuthStatePromise}

\* C33: the step in which a recomputation emits authStateChange leaves the
\* pending slot empty and the cancellation counter at 0, so the next
\* updateAuthState call starts a recomputation and is not dropped.
C33_EmitResetsBudget ==
  [][/\ Emits => pending' = [updateAuthStatePromise |-> 0, canceledTimes |-> 0]
     /\ (UpdateCall /\ last.ret = "emitted") =>
          /\ last'.ret = "started"
          /\ pending'.canceledTimes = 0
          /\ pending'.updateAuthStatePromise = Len(comps')]_vars

\* after an emission, a call started a recomputation with the counter at 0
C33_Witness ==
  /\ last.op = "updateAuthState"
  /\ last.ret = "started"
  /\ ~authState.isPending
  /\ pending = [updateAuthStatePromise |-> 1, canceledTimes |-> 0]
  /\ Len(comps) = 1

----------------------------------------------------------------------------
(* Properties of the expiration timers *)

\* C34: the one timer a key can have is live only for the token currently
\* stored under the key: add(k, T) leaves k with the timer of T and remove(k)
\* with none, so the timer of a token that was replaced or removed does not
\* fire, and expired(k, T) is emitted only for the T stored under k.
C34_TimerOfStoredToken ==
  [][\A k \in Keys :
       /\ LiveTimer(k) => (store[k] \in Tokens /\ expireTimeouts[k].token = store[k])
       /\ TimerFire(k) => emitted'[1] = EvExpired(k, store[k])
       /\ \A t \in Tokens : Add(k, t) => expireTimeouts'[k] = NewTimer(t)
       /\ Remove(k) => expireTimeouts'[k] = NoTimer
       /\ \A n \in 1..Len(emitted') :
            (emitted'[n].name = "expired" /\ emitted'[n].key = k) =>
              (LiveTimer(k) /\ emitted'[n].token = store[k])]_vars

\* the timer of the access key fired for the token that replaced the one
\* first stored under it
C34_Witness ==
  /\ last.op = "expired"
  /\ last.key = ACCESS_TOKEN_STORAGE_KEY
  /\ emitted[1] = EvExpired(ACCESS_TOKEN_STORAGE_KEY, IdToken)
  /\ store[ACCESS_TOKEN_STORAGE_KEY] = IdToken
  /\ last.ret = "started"
  /\ expireTimeouts[ACCESS_TOKEN_STORAGE_KEY] = NoTimer

----------------------------------------------------------------------------
(* Properties of the settling of a renewal *)

\* C35: when a renewal of key k settles, resolved or rejected, the renewal
\* cache holds no entry for k afterwards; the cache never holds a settled
\* operation, and a renew(k) that follows on a stored token starts a fresh
\* provider exchange.
C35_SettledLeavesCache ==
  [][/\ \A i \in RenewalIds :
          RenewFinally(i) =>
            /\ renewPromise'[renewals[i].key] = NoPromise
            /\ last'.outcome.type \in {"resolved", "rejected"}
     /\ \A k \in Keys :
          /\ renewPromise[k] # NoPromise => renewals[renewPromise[k]] # NoRenewal
          /\ (Renew(k) /\ last.op = "settled" /\ last.key = k /\ get(k) # NoToken) =>
               /\ last'.ret = "started"
               /\ renewals[last'.id] = NoRenewal
               /\ renewals'[last'.id].stage = "pending"]_vars

\* a renew() started a fresh exchange right after a renewal of its key was
\* rejected and settled
C35_Witness ==
  /\ last.op = "renew"
  /\ last.ret = "started"
  /\ renewals[last.id].stage = "pending"
  /\ renewPromise[last.key] = last.id
  /\ \A i \in RenewalIds \ {last.id} : renewals[i] = NoRenewal
  /\ expireTimeouts[last.key] = NoTimer
  /\ ~renewals[last.id].cancelled

\* C36: the completion of a renewal of key k, with a fresh token or with a
\* provider rejection, leaves the store entry of k as it is unless the token
\* stored under k is still the one the renewal was started for.
C36_ReplacedTokenUntouched ==
  [][\A i \in RenewalIds :
       ((\E t \in Tokens : RenewThen(i, t)) \/ (\E e \in ErrNames : RenewCatch(i, e))) =>
         (get(renewals[i].key) # renewals[i].token =>
            get(renewals[i].key)' = get(renewals[i].key))]_vars

\* the renewals of `key` whose promise has not settled
Unsettled(key) ==
  {i \in RenewalIds : renewals[i] # NoRenewal /\ renewals[i].key = key}

\* C37: every stored token has a live expiration timer or an unsettled
\* renewal for its key.
C37_StoredTokenIsWatched ==
  \A k \in Keys : get(k) # NoToken => (LiveTimer(k) \/ Unsettled(k) # {})

\* C40: when a renewal of key k settles, the renewal cache entry of k is
\* removed only if it is the entry of that renewal: the entry of a renewal of
\* k started later and still unsettled stays.
C40_SettleRemovesOwnEntry ==
  [][\A i \in RenewalIds :
       (RenewFinally(i) /\ renewPromise[renewals[i].key] # i) =>
         renewPromise'[renewals[i].key] = renewPromise[renewals[i].key]]_vars

----------------------------------------------------------------------------
(* Properties of clear() as the Auth State Manager sees it *)

\* C38: after clear(), with no recomputation in flight, the Auth State holds
\* neither an id token nor an access token and, by the default rule,
\* isAuthenticated = false.
C38_ClearedIsReflected ==
  (last.op = "clear" /\ Len(comps) = 0 /\ pending.updateAuthStatePromise = 0) =>
    /\ authState.idToken \notin Tokens
    /\ authState.accessToken \notin Tokens
    /\ ~isAuthenticatedOpt => ~authState.isAuthenticated

----------------------------------------------------------------------------
(* Properties of failed recomputations *)

\* the recomputation in the pending slot has failed
PendingFailed ==
  /\ pending.updateAuthStatePromise # 0
  /\ comps[pending.updateAuthStatePromise].stage = "failed"

\* C39: a failed recomputation does not wedge the Auth State Manager: in
\* every state, the cancellation counter at its ceiling included, an
\* updateAuthState call made after the failure starts a recomputation.
C39_FailureDoesNotWedge ==
  [][(UpdateCall /\ PendingFailed) =>
       /\ last'.ret = "started"
       /\ pending'.updateAuthStatePromise = Len(comps')
       /\ comps'[Len(comps')].stage = "tokens"]_vars

====
